---- MODULE Spec2Model ----
(***************************************************************************)
(* CycleGanTraining (src/cyclegan/CycleGan.py): the trainer that owns two  *)
(* generators, two discriminators and four Adam optimizers, its train_step *)
(* and its train loop.                                                     *)
(*                                                                         *)
(* Numbers are fixed point.  A tensor is a sequence of TensorLen integer   *)
(* pixels in -1..1 (the spec's [-1, 1] range); a network owns one integer  *)
(* trainable variable; losses are integers in units of 1/Scale; the betas  *)
(* of Adam are per mille and the learning rate is a whole number of weight *)
(* units.  The layers, the tape and Adam are the tensor framework's: they  *)
(* are modelled by the smallest arithmetic that keeps what the trainer     *)
(* relies on (which weights a value depends on, which state an update      *)
(* reads and writes).                                                      *)
(*                                                                         *)
(* Spec is one run of train.  CheckpointSpec is a caller that drives       *)
(* trainers through train_step, save and restore; a checkpoint path is the *)
(* pair of the prefix and the number tf.train.Checkpoint appends to it.    *)
(***************************************************************************)
EXTENDS Integers, Sequences, FiniteSets, TLC

\* ------------------------------------------------------------------ bounds
MaxBatches == 2
MaxEpochs == 2
TensorLen == 2
MaxCalls == 5

\* --------------------------------------------------------------- constants
Lambda == 10
Scale == 100
AdamDefaultBeta2 == 999
PerMille == 1000

Generators == {"generator_g", "generator_f"}
Discriminators == {"discriminator_x", "discriminator_y"}
Nets == Generators \cup Discriminators
Optimizers == {"generator_g_optimizer", "generator_f_optimizer",
               "discriminator_x_optimizer", "discriminator_y_optimizer"}

\* a name that is bound to nothing yet: no frame, no result
None == "None"
\* a local that holds no tensor or number yet, <<v>> once it holds v
Unbound == <<>>

\* ----------------------------------------------------------- arithmetic
Abs(a) == IF a < 0 THEN -a ELSE a
Sign(a) == IF a < 0 THEN -1 ELSE IF a > 0 THEN 1 ELSE 0
Min(a, b) == IF a <= b THEN a ELSE b
Max(a, b) == IF a >= b THEN a ELSE b

\* a * b / PerMille for a >= 0, 0 <= b <= PerMille, without leaving 32 bits
MulDiv(a, b) == (a \div PerMille) * b + ((a % PerMille) * b) \div PerMille

\* s[-1] of Python
Last(s) == s[Len(s)]

RECURSIVE SumSeq(_)
SumSeq(s) == IF s = <<>> THEN 0 ELSE Head(s) + SumSeq(Tail(s))

\* tf.reduce_mean over every element of a tensor
reduce_mean(t) == SumSeq(t) \div Len(t)

ones_like(t) == [i \in DOMAIN t |-> 1]
zeros_like(t) == [i \in DOMAIN t |-> 0]

\* 100 * ln(1 + exp(-a)) for a >= 0, rounded
SoftplusNeg(a) == IF a >= 6 THEN 0 ELSE <<69, 31, 13, 5, 2, 1>>[a + 1]

\* tf.keras.losses.BinaryCrossentropy(from_logits=True):
\* mean over the elements of max(z, 0) - z * t + ln(1 + exp(-|z|))
loss_obj(y_true, y_pred) ==
  reduce_mean([i \in DOMAIN y_pred |->
     Scale * Max(y_pred[i], 0) - Scale * y_pred[i] * y_true[i]
       + SoftplusNeg(Abs(y_pred[i]))])

\* ---------------------------------------------------------------- networks
Clip(a) == Max(-1, Min(1, a))

\* A generator maps an image to an image in [-1, 1]; a discriminator maps an
\* image to one logit per patch.  w is the network's trainable variable.
CallModel(net, w, x) ==
  IF net \in Generators
    THEN [i \in DOMAIN x |-> Clip(x[i] + w)]
    ELSE [i \in DOMAIN x |-> x[i] + w]

\* ------------------------------------------------------------------ losses
\* real scores compared against zeros, generated scores against ones
discriminator_loss_TargetsSwapped(real, generated) ==
  LET real_loss == loss_obj(zeros_like(real), real)
      generated_loss == loss_obj(ones_like(generated), generated)
      total_disc_loss == real_loss + generated_loss
  IN  (total_disc_loss * 5) \div 10

discriminator_loss(real, generated) ==
  LET real_loss == loss_obj(ones_like(real), real)
      generated_loss == loss_obj(zeros_like(generated), generated)
      total_disc_loss == real_loss + generated_loss
  IN  (total_disc_loss * 5) \div 10

generator_loss(generated) == loss_obj(ones_like(generated), generated)

\* the two images added instead of subtracted
MeanAbsDiff_Sum(a, b) ==
  reduce_mean([i \in DOMAIN a |-> Scale * Abs(a[i] + b[i])])

\* tf.reduce_mean(tf.abs(a - b))
MeanAbsDiff(a, b) == reduce_mean([i \in DOMAIN a |-> Scale * Abs(a[i] - b[i])])

\* the mean of the signed difference: tf.abs left out
calc_cycle_loss_Signed(real_image, cycled_image) ==
  LET loss1 == reduce_mean([i \in DOMAIN real_image |->
                              Scale * (real_image[i] - cycled_image[i])])
  IN  Lambda * loss1

calc_cycle_loss(real_image, cycled_image) ==
  LET loss1 == MeanAbsDiff(real_image, cycled_image)
  IN  Lambda * loss1

identity_loss(real_image, same_image) ==
  LET loss == MeanAbsDiff(real_image, same_image)
  IN  ((Lambda * 5) * loss) \div 10

\* ------------------------------------------------------------ forward pass
\* discriminator_y scoring fake_x, and discriminator_x scoring fake_y
ForwardPass_FakesCrossed(W, rx, ry) ==
  LET fake_y == CallModel("generator_g", W["generator_g"], rx)
      cycled_x == CallModel("generator_f", W["generator_f"], fake_y)
      fake_x == CallModel("generator_f", W["generator_f"], ry)
      cycled_y == CallModel("generator_g", W["generator_g"], fake_x)
      same_x == CallModel("generator_f", W["generator_f"], rx)
      same_y == CallModel("generator_g", W["generator_g"], ry)
      disc_real_x == CallModel("discriminator_x", W["discriminator_x"], rx)
      disc_real_y == CallModel("discriminator_y", W["discriminator_y"], ry)
      disc_fake_x == CallModel("discriminator_y", W["discriminator_y"], fake_x)
      disc_fake_y == CallModel("discriminator_x", W["discriminator_x"], fake_y)
  IN  [fake_y |-> fake_y, cycled_x |-> cycled_x,
       fake_x |-> fake_x, cycled_y |-> cycled_y,
       same_x |-> same_x, same_y |-> same_y,
       disc_real_x |-> disc_real_x, disc_real_y |-> disc_real_y,
       disc_fake_x |-> disc_fake_x, disc_fake_y |-> disc_fake_y]

\* The images and scores train_step computes under the tape, for the weights
\* W of the four networks.
ForwardPass(W, rx, ry) ==
  LET fake_y == CallModel("generator_g", W["generator_g"], rx)
      cycled_x == CallModel("generator_f", W["generator_f"], fake_y)
      fake_x == CallModel("generator_f", W["generator_f"], ry)
      cycled_y == CallModel("generator_g", W["generator_g"], fake_x)
      same_x == CallModel("generator_f", W["generator_f"], rx)
      same_y == CallModel("generator_g", W["generator_g"], ry)
      disc_real_x == CallModel("discriminator_x", W["discriminator_x"], rx)
      disc_real_y == CallModel("discriminator_y", W["discriminator_y"], ry)
      disc_fake_x == CallModel("discriminator_x", W["discriminator_x"], fake_x)
      disc_fake_y == CallModel("discriminator_y", W["discriminator_y"], fake_y)
  IN  [fake_y |-> fake_y, cycled_x |-> cycled_x,
       fake_x |-> fake_x, cycled_y |-> cycled_y,
       same_x |-> same_x, same_y |-> same_y,
       disc_real_x |-> disc_real_x, disc_real_y |-> disc_real_y,
       disc_fake_x |-> disc_fake_x, disc_fake_y |-> disc_fake_y]

\* the identity terms of the two generator totals exchanged
StepLosses_IdentitySwapped(f, rx, ry) ==
  LET gen_g_loss == generator_loss(f.disc_fake_y)
      gen_f_loss == generator_loss(f.disc_fake_x)
      total_cycle_loss == calc_cycle_loss(rx, f.cycled_x)
                            + calc_cycle_loss(ry, f.cycled_y)
      total_gen_g_loss == gen_g_loss + total_cycle_loss
                            + identity_loss(rx, f.same_x)
      total_gen_f_loss == gen_f_loss + total_cycle_loss
                            + identity_loss(ry, f.same_y)
      disc_x_loss == discriminator_loss(f.disc_real_x, f.disc_fake_x)
      disc_y_loss == discriminator_loss(f.disc_real_y, f.disc_fake_y)
  IN  [gen_g_loss |-> gen_g_loss, gen_f_loss |-> gen_f_loss,
       total_cycle_loss |-> total_cycle_loss,
       total_gen_g_loss |-> total_gen_g_loss,
       total_gen_f_loss |-> total_gen_f_loss,
       disc_x_loss |-> disc_x_loss, disc_y_loss |-> disc_y_loss]

\* The losses train_step computes from the forward pass f.
StepLosses(f, rx, ry) ==
  LET gen_g_loss == generator_loss(f.disc_fake_y)
      gen_f_loss == generator_loss(f.disc_fake_x)
      total_cycle_loss == calc_cycle_loss(rx, f.cycled_x)
                            + calc_cycle_loss(ry, f.cycled_y)
      total_gen_g_loss == gen_g_loss + total_cycle_loss
                            + identity_loss(ry, f.same_y)
      total_gen_f_loss == gen_f_loss + total_cycle_loss
                            + identity_loss(rx, f.same_x)
      disc_x_loss == discriminator_loss(f.disc_real_x, f.disc_fake_x)
      disc_y_loss == discriminator_loss(f.disc_real_y, f.disc_fake_y)
  IN  [gen_g_loss |-> gen_g_loss, gen_f_loss |-> gen_f_loss,
       total_cycle_loss |-> total_cycle_loss,
       total_gen_g_loss |-> total_gen_g_loss,
       total_gen_f_loss |-> total_gen_f_loss,
       disc_x_loss |-> disc_x_loss, disc_y_loss |-> disc_y_loss]

\* What the persistent tape holds when the with-block ends: the values the
\* watched variables had, the inputs, the forward pass and the losses.
GradientTape(W, rx, ry) ==
  LET f == ForwardPass(W, rx, ry)
  IN  [watched |-> W, real_x |-> rx, real_y |-> ry,
       forward |-> f, losses |-> StepLosses(f, rx, ry)]

\* loss `target` as a function of the weights, the inputs of the tape fixed
LossAt(t, target, W) ==
  StepLosses(ForwardPass(W, t.real_x, t.real_y), t.real_x, t.real_y)[target]

\* tape.gradient(target, net.trainable_variables): the derivative of the
\* recorded loss in the one variable of net (a central difference), every
\* other variable held at its recorded value.
TapeGradient(t, target, net) ==
  LossAt(t, target, [t.watched EXCEPT ![net] = @ + 1])
    - LossAt(t, target, [t.watched EXCEPT ![net] = @ - 1])

\* -------------------------------------------------------------------- Adam
\* tf.keras.optimizers.Adam(learning_rate=learning_rate, beta_1=beta_1):
\* beta_2 is not passed and keeps the framework default.
Adam(learning_rate, beta_1) ==
  [learning_rate |-> learning_rate, beta_1 |-> beta_1,
   beta_2 |-> AdamDefaultBeta2, iterations |-> 0, m |-> 0, v |-> 0]

\* The optimizer's slots after one apply_gradients with gradient g: m in
\* thousandths of a gradient unit, v in squared gradient units.
AdamSlots(o, g) ==
  [o EXCEPT !.iterations = @ + 1,
            !.m = Sign(@) * MulDiv(Abs(@), o.beta_1) + (PerMille - o.beta_1) * g,
            !.v = MulDiv(@, o.beta_2) + MulDiv(g * g, PerMille - o.beta_2)]

\* The step Adam takes: learning_rate * m_hat / (sqrt(v_hat) + eps), whose
\* magnitude is at most about learning_rate; rounded to a whole number of
\* learning rates in the direction of m.
AdamUpdate(o) == o.learning_rate * Sign(o.m)

\* ------------------------------------------------------------------ inputs
\* The k-th image of the pixel enumeration: TensorLen pixels in -1..1.
Image(k) == [j \in 1..TensorLen |-> ((k \div (3 ^ (j - 1))) % 3) - 1]
AllZero == (3 ^ TensorLen - 1) \div 2
AllOne == 3 ^ TensorLen - 1

\* A pre-batched dataset: len batches, the i-th one Image(first + i - 1).
Dataset(first, len) == [i \in 1..len |-> Image(first + i - 1)]
ImgFirsts == {AllZero, 0}
TarFirsts == {AllOne, 1}

\* The networks handed to the constructor, by the value of their variable.
InitialWeights ==
  { [net \in Nets |-> 0],
    [generator_g |-> 1, generator_f |-> -1,
     discriminator_x |-> 0, discriminator_y |-> 2],
    [generator_g |-> -1, generator_f |-> 0,
     discriminator_x |-> 1, discriminator_y |-> -1] }

\* learning_rate, beta_1, beta_2, checkpoint_prefix handed to the
\* constructor: the defaults (2e-4 in units of 1e-4, 0.5, 0.999, None) and
\* one other choice.
Hyperparameters ==
  { [learning_rate |-> 2, beta_1 |-> 500, beta_2 |-> 999,
     checkpoint_prefix |-> None],
    [learning_rate |-> 1, beta_1 |-> 900, beta_2 |-> 900,
     checkpoint_prefix |-> "ckpt/cyclegan"] }

OptimizerOf ==
  [generator_g |-> "generator_g_optimizer",
   generator_f |-> "generator_f_optimizer",
   discriminator_x |-> "discriminator_x_optimizer",
   discriminator_y |-> "discriminator_y_optimizer"]

\* the total loss that belongs to each network
OwnLoss ==
  [generator_g |-> "total_gen_g_loss", generator_f |-> "total_gen_f_loss",
   discriminator_x |-> "disc_x_loss", discriminator_y |-> "disc_y_loss"]

\* ------------------------------------------------------------------- state
VARIABLES
  weights,        \* net -> the value of its trainable variable
  optimizers,     \* optimizer -> its hyperparameters and slots
  ctor_args,      \* the keyword arguments as given to __init__
  save_counter,   \* self.checkpoint.save_counter
  files,          \* the checkpoints on disk: path -> what restore reads
  saved_from,     \* path -> the trainer and its state when it wrote path
  self_id,        \* which trainer object this is: 0, then 1, ...
  last_call,      \* the caller's last save or restore and how it ended
  ncalls,         \* how many calls the caller has made on trainers
  train_img, train_tar, epochs,            \* the arguments of train
  epoch, n, iterator, disc_loss, gen_loss, \* the locals of train
  epoch_list, gen_loss_list, disc_loss_list,
  sample_img, sample_tar,
  real_x, real_y, tape, gradients, step_ret, \* the frame of train_step
  pc,             \* where train is
  result,         \* what train returned or raised
  shown,          \* what generate_images has displayed
  calls,          \* train_step and generate_images calls of train, in order
  step_log,       \* tape.gradient and apply_gradients calls of this train_step
  built,          \* the network a builder has made last, or how it failed
  forward_pass    \* the last call of that network: what it ran and gave

trainer == <<weights, optimizers, ctor_args>>
checkpointing == <<save_counter, files, saved_from, self_id, last_call,
                   ncalls>>
train_args == <<train_img, train_tar, epochs>>
train_locals == <<epoch, n, iterator, disc_loss, gen_loss,
                  epoch_list, gen_loss_list, disc_loss_list,
                  sample_img, sample_tar>>
step_frame == <<real_x, real_y, tape, gradients, step_ret>>
building == <<built, forward_pass>>
vars == <<trainer, checkpointing, train_args, train_locals, step_frame,
          pc, result, shown, calls, step_log, building>>

\* the gradients computed so far in this train_step, by network
NoGradients == <<>>

\* CycleGanTraining(...) has returned: the networks handed in, four fresh
\* optimizers, and a checkpoint object that has saved nothing yet
Constructed ==
  /\ weights \in InitialWeights
  /\ ctor_args \in Hyperparameters
  /\ optimizers = [o \in Optimizers |->
                     Adam(ctor_args.learning_rate, ctor_args.beta_1)]
  /\ save_counter = 0

\* last_call when the caller has called neither save nor restore yet
NoCall ==
  [op |-> "__init__", trainer |-> 0, arg |-> <<>>, outcome |-> "returned",
   ret |-> <<>>]

\* no builder has been called, and no network made by one
NoModel == [class |-> "None"]
NoForward == [outcome |-> "None"]

\* the first trainer of the program, nothing on disk
FirstTrainer ==
  /\ Constructed
  /\ built = NoModel /\ forward_pass = NoForward
  /\ files = <<>> /\ saved_from = <<>>
  /\ self_id = 0 /\ last_call = NoCall /\ ncalls = 0

\* no train and no train_step has run
NoFrames ==
  /\ epoch = 0 /\ n = 0 /\ iterator = <<>>
  /\ disc_loss = Unbound /\ gen_loss = Unbound
  /\ epoch_list = <<>> /\ gen_loss_list = <<>> /\ disc_loss_list = <<>>
  /\ sample_img = Unbound /\ sample_tar = Unbound
  /\ real_x = Unbound /\ real_y = Unbound /\ tape = None
  /\ gradients = NoGradients /\ step_ret = Unbound
  /\ result = None
  /\ shown = <<>> /\ calls = <<>> /\ step_log = <<>>

\* CycleGanTraining(...) has been constructed and train(train_img, train_tar,
\* epochs) has been called.
Init ==
  /\ FirstTrainer
  /\ \E fx \in ImgFirsts, lx \in 0..MaxBatches : train_img = Dataset(fx, lx)
  /\ \E fy \in TarFirsts, ly \in 0..MaxBatches : train_tar = Dataset(fy, ly)
  /\ epochs \in 0..MaxEpochs
  /\ NoFrames
  /\ pc = "for_epoch"

\* ------------------------------------------------------------------- train
\* every batch of a with every batch of b, as two nested loops would pair them
Zip_Product(a, b) ==
  [i \in 1..(Len(a) * Len(b)) |->
     <<a[((i - 1) \div Len(b)) + 1], b[((i - 1) % Len(b)) + 1]>>]

\* tf.data.Dataset.zip((a, b)): pairs by index, as long as both last
Zip(a, b) == [i \in 1..Min(Len(a), Len(b)) |-> <<a[i], b[i]>>]

\* one entry of calls: a call (or a return) made by train in this epoch
Call(name, model, x, y, ret) ==
  [call |-> name, epoch |-> epoch, model |-> model, x |-> x, y |-> y,
   ret |-> ret]

\* for epoch in range(epochs): start = time.time(); n = 0; iterate the zip
ForEpoch ==
  /\ pc = "for_epoch" /\ epoch < epochs
  /\ n' = 0
  /\ iterator' = Zip(train_img, train_tar)
  /\ pc' = "for_batch"
  /\ UNCHANGED <<checkpointing, building>>
  /\ UNCHANGED <<trainer, train_args, epoch, disc_loss, gen_loss, epoch_list,
                 gen_loss_list, disc_loss_list, sample_img, sample_tar,
                 step_frame, result, shown, calls, step_log>>

\* for image_x, image_y in zip: the next pair goes to train_step
ForBatch ==
  /\ pc = "for_batch" /\ iterator # <<>>
  /\ real_x' = Head(iterator)[1]
  /\ real_y' = Head(iterator)[2]
  /\ iterator' = Tail(iterator)
  /\ calls' = Append(calls, Call("train_step", None, real_x', real_y', <<>>))
  /\ pc' = "train_step"
  /\ UNCHANGED <<checkpointing, building>>
  /\ UNCHANGED <<trainer, train_args, epoch, n, disc_loss, gen_loss, epoch_list,
                 gen_loss_list, disc_loss_list, sample_img, sample_tar,
                 tape, gradients, step_ret, result, shown, step_log>>

\* the sample taken inside the batch loop, after any batch
EndBatches_InsideLoop ==
  /\ pc = "for_batch" /\ (iterator = <<>> \/ n >= 1)
  /\ pc' = "sample"
  /\ UNCHANGED <<checkpointing, building>>
  /\ UNCHANGED <<trainer, train_args, train_locals, step_frame,
                 result, shown, calls, step_log>>

\* the zip is exhausted: clear_output and go on to the sample
EndBatches ==
  /\ pc = "for_batch" /\ iterator = <<>>
  /\ pc' = "sample"
  /\ UNCHANGED <<checkpointing, building>>
  /\ UNCHANGED <<trainer, train_args, train_locals, step_frame,
                 result, shown, calls, step_log>>

\* -------------------------------------------------------------- train_step
\* each network updated right after its own gradient is taken
StepOrder_UpdateAfterEachGradient ==
  <<"gradient_g", "apply_g", "gradient_f", "apply_f",
    "gradient_dx", "apply_dx", "gradient_dy", "apply_dy">>

\* The statements of train_step after the with-block, in program order: the
\* four tape.gradient calls, then the four apply_gradients calls.
StepOrder ==
  <<"gradient_g", "gradient_f", "gradient_dx", "gradient_dy",
    "apply_g", "apply_f", "apply_dx", "apply_dy">>

\* the statement after statement `at`; the return after the last one
After(at) ==
  LET i == CHOOSE k \in DOMAIN StepOrder : StepOrder[k] = at
  IN  IF i = Len(StepOrder) THEN "step_return" ELSE StepOrder[i + 1]

\* with tf.GradientTape(persistent=True) as tape: the forward pass and the
\* losses
Forward ==
  /\ pc = "train_step"
  /\ tape' = GradientTape(weights, real_x, real_y)
  /\ gradients' = NoGradients
  /\ step_ret' = Unbound
  /\ step_log' = <<>>
  /\ pc' = StepOrder[1]
  /\ UNCHANGED <<checkpointing, building>>
  /\ UNCHANGED <<trainer, train_args, train_locals, real_x, real_y,
                 result, shown, calls>>

\* the exception caught around the call and the loop going on
ForwardRaises_Swallowed ==
  /\ pc = "train_step"
  /\ pc' = "for_batch"
  /\ UNCHANGED <<checkpointing, building>>
  /\ UNCHANGED <<trainer, train_args, train_locals, step_frame,
                 result, shown, calls, step_log>>

\* the framework raises in the step (a shape mismatch, out of memory): the
\* exception leaves train_step and train, which catch nothing
ForwardRaises ==
  /\ pc = "train_step"
  /\ pc' = "raised"
  /\ result' = [raised |-> "train_step"]
  /\ UNCHANGED <<checkpointing, building>>
  /\ UNCHANGED <<trainer, train_args, train_locals, step_frame,
                 shown, calls, step_log>>

\* <net>_gradients = tape.gradient(<target>, <net>.trainable_variables)
Gradient(at, target, net) ==
  /\ pc = at
  /\ gradients' = (net :> TapeGradient(tape, target, net)) @@ gradients
  /\ step_log' = Append(step_log, <<"gradient", target, net>>)
  /\ pc' = After(at)
  /\ UNCHANGED <<checkpointing, building>>
  /\ UNCHANGED <<trainer, train_args, train_locals, real_x, real_y, tape,
                 step_ret, result, shown, calls>>

GradientG ==
  Gradient("gradient_g", "total_gen_g_loss", "generator_g")
GradientF ==
  Gradient("gradient_f", "total_gen_f_loss", "generator_f")
GradientDX ==
  Gradient("gradient_dx", "disc_x_loss", "discriminator_x")
GradientDY ==
  Gradient("gradient_dy", "disc_y_loss", "discriminator_y")

\* <opt>.apply_gradients(zip(<from>_gradients, <net>.trainable_variables))
ApplyGradients(at, opt, from, net) ==
  /\ pc = at
  /\ LET o == AdamSlots(optimizers[opt], gradients[from])
     IN  /\ optimizers' = [optimizers EXCEPT ![opt] = o]
         /\ weights' = [weights EXCEPT ![net] = @ - AdamUpdate(o)]
  /\ step_log' = Append(step_log, <<"apply_gradients", opt, net>>)
  /\ pc' = After(at)
  /\ UNCHANGED <<checkpointing, building>>
  /\ UNCHANGED <<ctor_args, train_args, train_locals, step_frame,
                 result, shown, calls>>

ApplyG ==
  ApplyGradients("apply_g", "generator_g_optimizer",
                 "generator_g", "generator_g")
\* generator_f's gradients zipped with generator_g's variables
ApplyF_OnGeneratorG ==
  ApplyGradients("apply_f", "generator_f_optimizer",
                 "generator_f", "generator_g")
ApplyF ==
  ApplyGradients("apply_f", "generator_f_optimizer",
                 "generator_f", "generator_f")
ApplyDX ==
  ApplyGradients("apply_dx", "discriminator_x_optimizer",
                 "discriminator_x", "discriminator_x")
\* discriminator_y's apply_gradients left out
ApplyDY_Skipped ==
  /\ pc = "apply_dy"
  /\ pc' = After("apply_dy")
  /\ UNCHANGED <<checkpointing, building>>
  /\ UNCHANGED <<trainer, train_args, train_locals, step_frame,
                 result, shown, calls, step_log>>
ApplyDY ==
  ApplyGradients("apply_dy", "discriminator_y_optimizer",
                 "discriminator_y", "discriminator_y")

\* the pair returned in the other order
TrainStepReturn_Swapped(t) ==
  <<t.losses.total_gen_g_loss, t.losses.disc_x_loss>>

\* return disc_x_loss, total_gen_g_loss
TrainStepReturn(t) == <<t.losses.disc_x_loss, t.losses.total_gen_g_loss>>

\* the losses of the epoch's steps summed instead of overwritten
StepReturn_Accumulating ==
  /\ pc = "step_return"
  /\ step_ret' = TrainStepReturn(tape)
  /\ disc_loss' = IF n = 0 THEN <<step_ret'[1]>>
                           ELSE <<disc_loss[1] + step_ret'[1]>>
  /\ gen_loss' = IF n = 0 THEN <<step_ret'[2]>>
                          ELSE <<gen_loss[1] + step_ret'[2]>>
  /\ n' = n + 1
  /\ calls' = Append(calls, Call("train_step_return", None, real_x, real_y,
                                 step_ret'))
  /\ pc' = "for_batch"
  /\ UNCHANGED <<checkpointing, building>>
  /\ UNCHANGED <<trainer, train_args, epoch, iterator, epoch_list,
                 gen_loss_list, disc_loss_list, sample_img, sample_tar,
                 real_x, real_y, tape, gradients, result, shown, step_log>>

\* train_step returns; train unpacks disc_loss, gen_loss = ..., prints, n += 1
StepReturn ==
  /\ pc = "step_return"
  /\ step_ret' = TrainStepReturn(tape)
  /\ disc_loss' = <<step_ret'[1]>>
  /\ gen_loss' = <<step_ret'[2]>>
  /\ n' = n + 1
  /\ calls' = Append(calls, Call("train_step_return", None, real_x, real_y,
                                 step_ret'))
  /\ pc' = "for_batch"
  /\ UNCHANGED <<checkpointing, building>>
  /\ UNCHANGED <<trainer, train_args, epoch, iterator, epoch_list,
                 gen_loss_list, disc_loss_list, sample_img, sample_tar,
                 real_x, real_y, tape, gradients, result, shown, step_log>>

\* ------------------------------------------------------- the epoch's sample
\* the batch the epoch's loop ended on
First_LastBatch(dataset) == dataset[Len(dataset)]

\* next(iter(dataset)): the first batch of a fresh iteration; it raises
\* StopIteration when the dataset has none
First(dataset) == dataset[1]

\* the sample and its display skipped when a dataset has no batch
Sample_SkippedWhenEmpty ==
  /\ pc = "sample"
  /\ IF train_img = <<>> \/ train_tar = <<>>
       THEN /\ pc' = "record"
            /\ UNCHANGED <<sample_img, sample_tar>>
       ELSE /\ sample_img' = First(train_img)
            /\ sample_tar' = First(train_tar)
            /\ pc' = "generate_images"
  /\ UNCHANGED <<checkpointing, building>>
  /\ UNCHANGED <<trainer, train_args, epoch, n, iterator, disc_loss, gen_loss,
                 epoch_list, gen_loss_list, disc_loss_list, step_frame,
                 result, shown, calls, step_log>>

\* sample_img = next(iter(train_img)); sample_tar = next(iter(train_tar))
Sample ==
  /\ pc = "sample"
  /\ IF train_img = <<>>
       THEN /\ pc' = "raised"
            /\ result' = [raised |-> "StopIteration"]
            /\ UNCHANGED <<sample_img, sample_tar>>
       ELSE IF train_tar = <<>>
         THEN /\ sample_img' = First(train_img)
              /\ pc' = "raised"
              /\ result' = [raised |-> "StopIteration"]
              /\ UNCHANGED sample_tar
         ELSE /\ sample_img' = First(train_img)
              /\ sample_tar' = First(train_tar)
              /\ pc' = "generate_images"
              /\ UNCHANGED result
  /\ UNCHANGED <<checkpointing, building>>
  /\ UNCHANGED <<trainer, train_args, epoch, n, iterator, disc_loss, gen_loss,
                 epoch_list, gen_loss_list, disc_loss_list, step_frame,
                 shown, calls, step_log>>

\* generate_images(model, test_input): prediction = model(test_input), then
\* the first input and predicted images go to the display
generate_images(model, test_input) ==
  LET prediction == CallModel(model, weights[model], test_input)
  IN  [model |-> model, test_input |-> test_input, prediction |-> prediction]

\* self.generate_images(self.generator_g, sample_img)
GenerateImages ==
  /\ pc = "generate_images"
  /\ calls' = Append(calls, Call("generate_images", "generator_g",
                                 sample_img, <<>>, <<>>))
  /\ shown' = Append(shown, generate_images("generator_g", sample_img))
  /\ pc' = "record"
  /\ UNCHANGED <<checkpointing, building>>
  /\ UNCHANGED <<trainer, train_args, train_locals, step_frame,
                 result, step_log>>

\* the display facility raises: the exception leaves generate_images and
\* train, which catch nothing
GenerateImagesRaises ==
  /\ pc = "generate_images"
  /\ calls' = Append(calls, Call("generate_images", "generator_g",
                                 sample_img, <<>>, <<>>))
  /\ pc' = "raised"
  /\ result' = [raised |-> "generate_images"]
  /\ UNCHANGED <<checkpointing, building>>
  /\ UNCHANGED <<trainer, train_args, train_locals, step_frame,
                 shown, step_log>>

\* the prints read disc_loss and gen_loss (unbound when no step ran); then
\* epoch_list.append(epoch+1), gen_loss_list.append(gen_loss),
\* disc_loss_list.append(disc_loss), and the next epoch
Record ==
  /\ pc = "record"
  /\ IF disc_loss = Unbound \/ gen_loss = Unbound
       THEN /\ pc' = "raised"
            /\ result' = [raised |-> "UnboundLocalError"]
            /\ UNCHANGED <<epoch, epoch_list, gen_loss_list, disc_loss_list>>
       ELSE /\ epoch_list' = Append(epoch_list, epoch + 1)
            /\ gen_loss_list' = Append(gen_loss_list, gen_loss[1])
            /\ disc_loss_list' = Append(disc_loss_list, disc_loss[1])
            /\ epoch' = epoch + 1
            /\ pc' = "for_epoch"
            /\ UNCHANGED result
  /\ UNCHANGED <<checkpointing, building>>
  /\ UNCHANGED <<trainer, train_args, n, iterator, disc_loss, gen_loss,
                 sample_img, sample_tar, step_frame, shown, calls, step_log>>

\* return np.array([epoch_list, gen_loss_list, disc_loss_list])
TrainReturn ==
  /\ pc = "for_epoch" /\ epoch >= epochs
  /\ result' = [returned |-> <<epoch_list, gen_loss_list, disc_loss_list>>]
  /\ pc' = "returned"
  /\ UNCHANGED <<checkpointing, building>>
  /\ UNCHANGED <<trainer, train_args, train_locals, step_frame,
                 shown, calls, step_log>>

Next ==
  \/ ForEpoch \/ ForBatch \/ EndBatches
  \/ Forward \/ ForwardRaises
  \/ GradientG \/ GradientF \/ GradientDX \/ GradientDY
  \/ ApplyG \/ ApplyF \/ ApplyDX \/ ApplyDY
  \/ StepReturn
  \/ Sample \/ GenerateImages \/ GenerateImagesRaises
  \/ Record \/ TrainReturn

Spec == Init /\ [][Next]_vars

\* ------------------------------------------------------------- checkpoints
\* The attributes __init__ assigns on self.  checkpoint_prefix is a parameter
\* of __init__ that no statement assigns to an attribute.
SelfAttributes == Nets \cup Optimizers \cup {"LAMBDA", "loss_obj", "checkpoint"}

\* `if x:` of Python, for None and strings
Truthy(x) == x \notin {None, ""}

\* the two generator keywords bound to each other's network
Checkpoint_GeneratorsCrossed ==
  [generator_g |-> "generator_f",
   generator_f |-> "generator_g",
   discriminator_x |-> "discriminator_x",
   discriminator_y |-> "discriminator_y",
   generator_g_optimizer |-> "generator_g_optimizer",
   generator_f_optimizer |-> "generator_f_optimizer",
   discriminator_x_optimizer |-> "discriminator_x_optimizer",
   discriminator_y_optimizer |-> "discriminator_y_optimizer"]

\* self.checkpoint = tf.train.Checkpoint(...): keyword -> the attribute of
\* self whose object it tracks
Checkpoint ==
  [generator_g |-> "generator_g",
   generator_f |-> "generator_f",
   discriminator_x |-> "discriminator_x",
   discriminator_y |-> "discriminator_y",
   generator_g_optimizer |-> "generator_g_optimizer",
   generator_f_optimizer |-> "generator_f_optimizer",
   discriminator_x_optimizer |-> "discriminator_x_optimizer",
   discriminator_y_optimizer |-> "discriminator_y_optimizer"]

\* the state of a tracked object: a network's variable, an optimizer's
\* hyperparameters and slots
Tracked(object, W, O) == IF object \in Nets THEN W[object] ELSE O[object]

\* what restore leaves in `object`: the value saved under the keyword that
\* tracks it, its old state when no keyword does
Restored(object, file, old) ==
  LET names == {name \in DOMAIN Checkpoint : Checkpoint[name] = object}
  IN  IF names = {} THEN old
      ELSE file.objects[CHOOSE name \in names : TRUE]

\* one entry of last_call
Outcome(op, arg, outcome, ret) ==
  [op |-> op, trainer |-> self_id, arg |-> arg, outcome |-> outcome,
   ret |-> ret]

\* self.checkpoint.save(file_prefix=file_prefix): tf.train.Checkpoint adds one
\* to its save_counter, writes the tracked objects and the counter to
\* <file_prefix>-<save_counter> and returns that path
CheckpointSave(arg, file_prefix) ==
  LET number == save_counter + 1
      path == <<file_prefix, number>>
      file == [objects |->
                 [name \in DOMAIN Checkpoint |->
                    Tracked(Checkpoint[name], weights, optimizers)],
               save_counter |-> number]
  IN  /\ save_counter' = number
      /\ files' = (path :> file) @@ files
      /\ saved_from' =
           (path :> [trainer |-> self_id, weights |-> weights,
                     optimizers |-> optimizers]) @@ saved_from
      /\ last_call' = Outcome("save", arg, "returned", <<path>>)

\* def save(self, checkpoint_prefix=None).  Without a truthy argument the
\* elif reads self.checkpoint_prefix, which is no attribute of self: the
\* lookup raises AttributeError before anything is written.
Save(checkpoint_prefix) ==
  IF Truthy(checkpoint_prefix)
    THEN CheckpointSave(<<checkpoint_prefix>>, checkpoint_prefix)
    ELSE /\ "checkpoint_prefix" \notin SelfAttributes
         /\ last_call' = Outcome("save", <<checkpoint_prefix>>,
                                 "AttributeError", <<>>)
         /\ UNCHANGED <<save_counter, files, saved_from>>

\* the networks restored, the optimizers left as they are
Restore_NetworksOnly(save_path) ==
  LET file == files[save_path]
  IN  /\ weights' = [net \in Nets |-> Restored(net, file, weights[net])]
      /\ optimizers' = optimizers
      /\ save_counter' = file.save_counter
      /\ last_call' = Outcome("restore", <<save_path>>, "returned", <<>>)

\* def restore(self, save_path): return self.checkpoint.restore(save_path).
\* Every tracked object takes the state the file holds for it, and so does
\* the checkpoint's own save_counter.
Restore(save_path) ==
  LET file == files[save_path]
  IN  /\ weights' = [net \in Nets |-> Restored(net, file, weights[net])]
      /\ optimizers' =
           [o \in Optimizers |-> Restored(o, file, optimizers[o])]
      /\ save_counter' = file.save_counter
      /\ last_call' = Outcome("restore", <<save_path>>, "returned", <<>>)

\* train_step(real_x, real_y) from its call to its return: what it leaves in
\* the networks and the optimizers, and what it returns
TrainStep(W, O, rx, ry) ==
  LET t == GradientTape(W, rx, ry)
      o == [net \in Nets |->
              AdamSlots(O[OptimizerOf[net]],
                        TapeGradient(t, OwnLoss[net], net))]
  IN  [weights |-> [net \in Nets |-> W[net] - AdamUpdate(o[net])],
       optimizers |->
         [opt \in Optimizers |->
            o[CHOOSE net \in Nets : OptimizerOf[net] = opt]],
       ret |-> TrainStepReturn(t)]

\* the prefixes the caller passes to save: none, or a directory of its own
SavePrefixes == {None, "ckpt/run"}

\* the caller saves the trainer
CallSave ==
  /\ pc = "idle" /\ ncalls < MaxCalls
  /\ \E checkpoint_prefix \in SavePrefixes : Save(checkpoint_prefix)
  /\ ncalls' = ncalls + 1
  /\ UNCHANGED building
  /\ UNCHANGED <<trainer, self_id, train_args, train_locals, step_frame,
                 pc, result, shown, calls, step_log>>

\* the caller restores the trainer from a checkpoint that is on disk
CallRestore ==
  /\ pc = "idle" /\ ncalls < MaxCalls
  /\ \E save_path \in DOMAIN files : Restore(save_path)
  /\ ncalls' = ncalls + 1
  /\ UNCHANGED building
  /\ UNCHANGED <<ctor_args, files, saved_from, self_id, train_args,
                 train_locals, step_frame, pc, result, shown, calls,
                 step_log>>

\* the caller runs one train_step on the trainer
CallTrainStep ==
  /\ pc = "idle" /\ ncalls < MaxCalls
  /\ LET step == TrainStep(weights, optimizers, Image(AllZero), Image(AllOne))
     IN  /\ weights' = step.weights
         /\ optimizers' = step.optimizers
         /\ last_call' = Outcome("train_step", <<>>, "returned", step.ret)
  /\ ncalls' = ncalls + 1
  /\ UNCHANGED building
  /\ UNCHANGED <<ctor_args, save_counter, files, saved_from, self_id,
                 train_args, train_locals, step_frame, pc, result, shown,
                 calls, step_log>>

\* the caller constructs another trainer of the same topology and goes on
\* with it; what is on disk stays
Construct ==
  /\ pc = "idle" /\ ncalls < MaxCalls
  /\ weights' \in InitialWeights
  /\ optimizers' = [o \in Optimizers |->
                      Adam(ctor_args.learning_rate, ctor_args.beta_1)]
  /\ save_counter' = 0
  /\ self_id' = self_id + 1
  /\ last_call' = [NoCall EXCEPT !.trainer = self_id + 1]
  /\ ncalls' = ncalls + 1
  /\ UNCHANGED building
  /\ UNCHANGED <<ctor_args, files, saved_from, train_args, train_locals,
                 step_frame, pc, result, shown, calls, step_log>>

\* a trainer has been constructed; the caller drives it through train_step,
\* save and restore
CheckpointInit ==
  /\ FirstTrainer
  /\ train_img = <<>> /\ train_tar = <<>> /\ epochs = 0
  /\ NoFrames
  /\ pc = "idle"

CheckpointNext == CallTrainStep \/ CallSave \/ CallRestore \/ Construct

CheckpointSpec == CheckpointInit /\ [][CheckpointNext]_vars

\* ----------------------------------------------------------------- builders
\* Python values handed to a builder: None, or a string by its characters
PyNone == [type |-> "NoneType"]
Str(chars) == [type |-> "str", chars |-> chars]

\* str.lower(), on the letters the strings here are written with
UpperCase ==
  [B |-> "b", E |-> "e", I |-> "i", L |-> "l", N |-> "n", R |-> "r",
   S |-> "s", T |-> "t"]
Lower(chars) ==
  [i \in DOMAIN chars |->
     IF chars[i] \in DOMAIN UpperCase THEN UpperCase[chars[i]] ELSE chars[i]]

\* `sub in s` of two strings
Contains(sub, chars) ==
  \E k \in 0..(Len(chars) - Len(sub)) :
    SubSeq(chars, k + 1, k + Len(sub)) = sub

\* A layer object: its class and the arguments that decide the shape it gives.
Layer(kind, filters, kernel, strides, padding, target) ==
  [layer |-> kind, filters |-> filters, kernel |-> kernel,
   strides |-> strides, padding |-> padding, target |-> target]
\* a layer that keeps the shape of its input (normalization, activation, ...)
Plain(kind) == Layer(kind, 0, <<>>, 1, "", <<>>)
Dense(units) == Layer("Dense", units, <<>>, 1, "", <<>>)
Reshape(target) == Layer("Reshape", 0, <<>>, 1, "", target)
Conv2D(filters, kernel, strides, padding) ==
  Layer("Conv2D", filters, kernel, strides, padding, <<>>)
Conv2DTranspose(filters, kernel, strides, padding) ==
  Layer("Conv2DTranspose", filters, kernel, strides, padding, <<>>)
\* ResNet_Block(filter_size) and SEResNet_Block(filter_size): strides (1, 1),
\* so the skip connection is the identity
ResNet_Block(filter_size) ==
  Layer("ResNet_Block", filter_size, <<3, 3>>, 1, "same", <<>>)
SEResNet_Block(filter_size) ==
  Layer("SEResNet_Block", filter_size, <<3, 3>>, 1, "same", <<>>)

RECURSIVE Product(_)
Product(shape) ==
  IF shape = <<>> THEN 1 ELSE Head(shape) * Product(Tail(shape))

CeilDiv(a, b) == (a + b - 1) \div b

\* The shape (without the batch axis) a layer gives on an input of shape
\* `shape`; <<>> when the layer cannot be applied to it.
OutputShape(l, shape) ==
  CASE l.layer = "Dense" -> [shape EXCEPT ![Len(shape)] = l.filters]
    [] l.layer = "Reshape" ->
         IF Product(l.target) = Product(shape) THEN l.target ELSE <<>>
    [] l.layer = "Conv2DTranspose" ->
         IF l.padding = "same"
           THEN <<shape[1] * l.strides, shape[2] * l.strides, l.filters>>
           ELSE <<(shape[1] - 1) * l.strides + l.kernel[1],
                  (shape[2] - 1) * l.strides + l.kernel[2], l.filters>>
    [] l.layer = "Conv2D" ->
         IF l.padding = "same"
           THEN <<CeilDiv(shape[1], l.strides), CeilDiv(shape[2], l.strides),
                  l.filters>>
           ELSE IF shape[1] < l.kernel[1] \/ shape[2] < l.kernel[2] THEN <<>>
           ELSE <<(shape[1] - l.kernel[1]) \div l.strides + 1,
                  (shape[2] - l.kernel[2]) \div l.strides + 1, l.filters>>
    [] l.layer \in {"MaxPooling2D", "AveragePooling2D"} ->
         <<shape[1] \div 2, shape[2] \div 2, shape[3]>>
    [] l.layer = "ZeroPadding2D" ->
         <<shape[1] + 2, shape[2] + 2, shape[3]>>
    [] l.layer = "Concatenate" -> <<shape[1], shape[2], 2 * shape[3]>>
    [] l.layer = "Flatten" -> <<Product(shape)>>
    [] l.layer = "GlobalAveragePooling2D" -> <<shape[3]>>
    [] l.layer \in {"ResNet_Block", "SEResNet_Block"} ->
         IF shape[3] = l.filters THEN shape ELSE <<>>
    [] OTHER -> shape

\* one named list of layers of a model, in the order call runs them
Stage(name, layers) == [name |-> name, layers |-> layers]

\* what a builder leaves: the model it returns, or the exception it raises
Built(class, args, stages) ==
  [class |-> class, args |-> args, outcome |-> "built", stages |-> stages]
Raised(class, args, exception) ==
  [class |-> class, args |-> args, outcome |-> exception, stages |-> <<>>]

\* the three Conv2DTranspose => BatchNormalization => LeakyReLU groups and
\* the last Conv2DTranspose (tanh) of a generator, without residual blocks
UpConv(filters, gen_kernel_size) ==
  <<Conv2DTranspose(filters, gen_kernel_size, 2, "same"),
    Plain("BatchNormalization"), Plain("LeakyReLU")>>

\* the layers up to the Reshape to project_shape
Projection(a) ==
  LET project_size == <<a.image_size[1] \div 16, a.image_size[2] \div 16>>
      project_shape == project_size \o <<a.num_filters * 16>>
      dense_units == project_size[1] * project_size[2] * a.num_filters * 16
  IN  (IF a.dense
         THEN <<Dense(dense_units)>>
         ELSE <<Plain("Input"), Reshape(<<1, 1, a.latent_dim>>),
                Conv2DTranspose(a.num_filters * 16, project_size, 1,
                                "valid")>>)
      \o <<Plain("BatchNormalization"), Plain("LeakyReLU"),
           Reshape(project_shape)>>

\* build_generator(latent_dim, image_size, channels, num_filters,
\* gen_kernel_size, activation='LeakyReLU', dense, resnet)
build_generator(a) ==
  IF a.resnet.type # "str"
    THEN Raised("build_generator", a, "AttributeError")
    ELSE
      LET lower == Lower(a.resnet.chars)
          res == IF Contains(<<"s", "e">>, lower) THEN <<>>
                 ELSE IF Contains(<<"r", "e", "s">>, lower)
                   THEN <<ResNet_Block(a.num_filters * 16)>>
                 ELSE <<>>
      IN  Built("build_generator", a,
            <<Stage("layers",
                Projection(a) \o res
                  \o UpConv(a.num_filters * 8, a.gen_kernel_size)
                  \o UpConv(a.num_filters * 4, a.gen_kernel_size)
                  \o UpConv(a.num_filters * 2, a.gen_kernel_size)
                  \o <<Conv2DTranspose(a.channels, a.gen_kernel_size, 2,
                                       "same")>>)>>)

\* the residual stage with the test for 'res' made before the test for 'se'
ResStage_ResFirst(resnet, filters, count) ==
  LET lower == Lower(resnet.chars)
  IN  IF Contains(<<"r", "e", "s">>, lower)
        THEN [i \in 1..count |-> ResNet_Block(filters)]
      ELSE IF Contains(<<"s", "e">>, lower)
        THEN [i \in 1..count |-> SEResNet_Block(filters)]
      ELSE <<>>

\* The residual stage built from the resnet string: `count` blocks of
\* `filters` filters, SE-ResNet if the lowered string contains 'se', else
\* ResNet if it contains 'res', else none.
ResStage(resnet, filters, count) ==
  LET lower == Lower(resnet.chars)
  IN  IF Contains(<<"s", "e">>, lower)
        THEN [i \in 1..count |-> SEResNet_Block(filters)]
      ELSE IF Contains(<<"r", "e", "s">>, lower)
        THEN [i \in 1..count |-> ResNet_Block(filters)]
      ELSE <<>>

\* SEResNet_generator.__init__: the layer lists it assigns, in order
SEResNet_generator(a) ==
  IF a.resnet.type # "str"
    THEN Raised("SEResNet_generator", a, "AttributeError")
    ELSE Built("SEResNet_generator", a,
      <<Stage("initial_block", Projection(a)),
        Stage("res_block1",
              ResStage(a.resnet, a.num_filters * 16, a.num_blocks[1])),
        Stage("conv_block1", UpConv(a.num_filters * 8, a.gen_kernel_size)),
        Stage("res_block2",
              ResStage(a.resnet, a.num_filters * 8, a.num_blocks[2])),
        Stage("conv_block2", UpConv(a.num_filters * 4, a.gen_kernel_size)),
        Stage("res_block3",
              ResStage(a.resnet, a.num_filters * 4, a.num_blocks[3])),
        Stage("conv_block3", UpConv(a.num_filters * 2, a.gen_kernel_size)),
        Stage("conv_block4",
              <<Conv2DTranspose(a.channels, a.gen_kernel_size, 2,
                                "same")>>)>>)

\* `if x:` for None and strings by their characters
TruthyArg(x) == x.type = "str" /\ x.chars # <<>>

\* conv block i of SEResNet_discriminator: Conv2D, the pooling asked for,
\* BatchNormalization (never in block 1), LeakyReLU, Dropout
DiscConvBlock(i, a) ==
  LET strides == IF TruthyArg(a.pooling) THEN 1 ELSE 2
  IN  <<Conv2D(a.num_filters * (2 ^ (i - 1)), a.disc_kernel_size, strides,
               "same")>>
      \o (IF a.pooling = Str(<<"m", "a", "x">>)
            THEN <<Plain("MaxPooling2D")>>
          ELSE IF TruthyArg(a.pooling) THEN <<Plain("AveragePooling2D")>>
          ELSE <<>>)
      \o (IF i > 1 /\ a.batchnorm THEN <<Plain("BatchNormalization")>>
                                  ELSE <<>>)
      \o <<Plain("LeakyReLU")>>
      \o (IF a.dropout THEN <<Plain("Dropout")>> ELSE <<>>)

\* SEResNet_discriminator.__init__: the layer lists it assigns, in order
SEResNet_discriminator(a) ==
  IF a.resnet.type # "str"
    THEN Raised("SEResNet_discriminator", a, "AttributeError")
    ELSE Built("SEResNet_discriminator", a,
      <<Stage("conv_block1", DiscConvBlock(1, a)),
        Stage("res_block1",
              ResStage(a.resnet, a.num_filters, a.num_blocks[1])),
        Stage("conv_block2", DiscConvBlock(2, a)),
        Stage("res_block2",
              ResStage(a.resnet, a.num_filters * 2, a.num_blocks[2])),
        Stage("conv_block3", DiscConvBlock(3, a)),
        Stage("res_block3",
              ResStage(a.resnet, a.num_filters * 4, a.num_blocks[3])),
        Stage("conv_block4", DiscConvBlock(4, a)),
        Stage("res_block4",
              ResStage(a.resnet, a.num_filters * 8, a.num_blocks[4])),
        Stage("header_block",
              IF a.dense
                THEN <<Plain("Flatten"), Dense(1)>>
                ELSE <<Conv2D(1, a.disc_kernel_size, 2, "valid"),
                       Plain("GlobalAveragePooling2D")>>)>>)

\* the branches comparing norm_type itself, without lower()
NormLayers_CaseSensitive(norm_type) ==
  IF norm_type.chars = <<"b", "a", "t", "c", "h", "n", "o", "r", "m">>
    THEN <<Plain("BatchNormalization")>>
  ELSE IF norm_type.chars = <<"i", "n", "s", "t", "a", "n", "c", "e",
                              "n", "o", "r", "m">>
    THEN <<Plain("InstanceNormalization")>>
  ELSE <<>>

\* if norm_type.lower() == 'batchnorm': ... elif ... == 'instancenorm': ...
\* with no else: the normalization layers the two branches add
NormLayers(norm_type) ==
  LET lower == Lower(norm_type.chars)
  IN  IF lower = <<"b", "a", "t", "c", "h", "n", "o", "r", "m">>
        THEN <<Plain("BatchNormalization")>>
      ELSE IF lower = <<"i", "n", "s", "t", "a", "n", "c", "e",
                        "n", "o", "r", "m">>
        THEN <<Plain("InstanceNormalization")>>
      ELSE <<>>

\* downsample(filters, size, norm_type, apply_norm):
\* Conv2D => normalization => LeakyReLU
downsample(a) ==
  IF a.apply_norm /\ a.norm_type.type # "str"
    THEN Raised("downsample", a, "AttributeError")
    ELSE Built("downsample", a,
      <<Stage("layers",
          <<Conv2D(a.filters, <<a.size, a.size>>, 2, "same")>>
            \o (IF a.apply_norm THEN NormLayers(a.norm_type) ELSE <<>>)
            \o <<Plain("LeakyReLU")>>)>>)

\* upsample(filters, size, norm_type, apply_dropout):
\* Conv2DTranspose => normalization => Dropout => ReLU
upsample(a) ==
  IF a.norm_type.type # "str"
    THEN Raised("upsample", a, "AttributeError")
    ELSE Built("upsample", a,
      <<Stage("layers",
          <<Conv2DTranspose(a.filters, <<a.size, a.size>>, 2, "same")>>
            \o NormLayers(a.norm_type)
            \o (IF a.apply_dropout THEN <<Plain("Dropout")>> ELSE <<>>)
            \o <<Plain("ReLU")>>)>>)

\* the arguments discriminator hands to its downsample calls
DownArgs(filters, norm_type, apply_norm) ==
  [filters |-> filters, size |-> 4, norm_type |-> norm_type,
   apply_norm |-> apply_norm]

\* discriminator(norm_type, target) of CycleGan.py, the PatchGAN: three
\* downsample models, then its own convolution, normalization and output.
\* norm1 is assigned in the two branches only: with any other norm_type
\* LeakyReLU()(norm1) reads an unbound local.
PatchGan_discriminator(a) ==
  LET down1 == downsample(DownArgs(64, a.norm_type, FALSE))
      down2 == downsample(DownArgs(128, a.norm_type, TRUE))
      down3 == downsample(DownArgs(256, a.norm_type, TRUE))
  IN  IF down2.outcome # "built"
        THEN Raised("discriminator", a, down2.outcome)
      ELSE IF NormLayers(a.norm_type) = <<>>
        THEN Raised("discriminator", a, "UnboundLocalError")
      ELSE Built("discriminator", a,
        (IF a.target THEN <<Stage("concatenate", <<Plain("Concatenate")>>)>>
                     ELSE <<>>)
        \o <<Stage("down1", down1.stages[1].layers),
             Stage("down2", down2.stages[1].layers),
             Stage("down3", down3.stages[1].layers),
             Stage("zero_pad1", <<Plain("ZeroPadding2D")>>),
             Stage("conv", <<Conv2D(512, <<4, 4>>, 1, "valid")>>),
             Stage("norm1", NormLayers(a.norm_type)),
             Stage("leaky_relu", <<Plain("LeakyReLU")>>),
             Stage("zero_pad2", <<Plain("ZeroPadding2D")>>),
             Stage("last", <<Conv2D(1, <<4, 4>>, 1, "valid")>>)>>)

\* -------------------------------------------------- the ViT discriminator
\* PatchEmbed_layer(image_size, patch_size, embed_dim, kernel_size, padding):
\* a Conv2D of stride patch_size whose output is reshaped to tokens
PatchEmbed_layer(image_size, patch_size, embed_dim, kernel_size, padding) ==
  Layer("PatchEmbed_layer", embed_dim, <<kernel_size, kernel_size>>,
        patch_size, padding,
        <<(image_size[1] \div patch_size) * (image_size[2] \div patch_size)>>)
AddPositionEmbed_layer(num_patches, embed_dim) ==
  Layer("AddPositionEmbed_layer", embed_dim, <<>>, 1, "", <<num_patches>>)
\* Block(embed_dim, ...): a transformer block built for tokens of that width
Block(embed_dim) == Layer("Block", embed_dim, <<>>, 1, "", <<>>)

\* discriminator.__init__ of build_discriminator.py: the layers it assigns
ViT_discriminator(a) ==
  LET embed_dim_1 == a.embed_dim \div 4
      embed_dim_2 == a.embed_dim \div 4
      embed_dim_3 == a.embed_dim \div 2
      patch_size_1 == a.patch_size
      patch_size_2 == a.patch_size * 2
      patch_size_3 == a.patch_size * 4
      patches_1 == PatchEmbed_layer(a.image_size, patch_size_1, embed_dim_1,
                                    patch_size_1 * 2, "same")
      patches_2 == PatchEmbed_layer(a.image_size, patch_size_2, embed_dim_2,
                                    patch_size_2, "valid")
      patches_3 == PatchEmbed_layer(a.image_size, patch_size_3, embed_dim_3,
                                    patch_size_3, "valid")
  IN  Built("ViT_discriminator", a,
        <<Stage("patches_1", <<patches_1>>),
          Stage("patches_2", <<patches_2>>),
          Stage("patches_3", <<patches_3>>),
          Stage("add_pos_embed_1",
                <<AddPositionEmbed_layer(patches_1.target[1], embed_dim_1)>>),
          Stage("add_pos_embed_2",
                <<AddPositionEmbed_layer(patches_2.target[1], embed_dim_2)>>),
          Stage("add_pos_embed_3",
                <<AddPositionEmbed_layer(patches_3.target[1], embed_dim_3)>>),
          Stage("blocks_1", [i \in 1..a.depth |-> Block(embed_dim_1)]),
          Stage("blocks_2",
                [i \in 1..(a.depth - 1) |-> Block(embed_dim_1 + embed_dim_2)]),
          Stage("blocks_21",
                [i \in 1..1 |-> Block(embed_dim_1 + embed_dim_2)]),
          Stage("blocks_3", [i \in 1..a.depth |-> Block(a.embed_dim)]),
          Stage("add_cls_token",
                <<Layer("AddCLSToken_layer", a.embed_dim, <<>>, 1, "",
                        <<>>)>>),
          Stage("blocks_last", <<Block(a.embed_dim)>>),
          Stage("layer_norm", <<Plain("LayerNormalization")>>),
          Stage("head", <<Dense(a.num_classes)>>)>>)

\* the layers of the attribute `name` of a built model
LayersOf(m, name) ==
  LET i == CHOOSE k \in DOMAIN m.stages : m.stages[k].name = name
  IN  m.stages[i].layers

\* one entry of what a call ran: the operation, the shape it gave (without
\* the batch axis) and, for token sequences, what the token at position 0 is
Ran(op, shape, token0) == [op |-> op, shape |-> shape, token0 |-> token0]

\* a PatchEmbed_layer on an image: the Conv2D, then the reshape to tokens
PatchEmbedCall(l, image) ==
  LET x == OutputShape(Conv2D(l.filters, l.kernel, l.strides, l.padding),
                       image)
  IN  <<x[1] * x[2], x[3]>>

\* the entries for running `blocks` on x, one per block
BlocksRan(op, blocks, x, token0) ==
  [i \in DOMAIN blocks |-> Ran(op, x, token0)]

\* the classification token put after the patch tokens
AddCLSToken_layer_Appended(tokens) == Append(tokens, "cls_token")

\* AddCLSToken_layer.call: tf.concat([cls_token tiled, x], axis=1)
AddCLSToken_layer(tokens) == <<"cls_token">> \o tokens

\* WindowPartition_layer(window_size) on a grid of tokens: the windows, each
\* window_size * window_size tokens
WindowPartition(window_size, grid) ==
  <<(grid[1] \div window_size) * (grid[2] \div window_size),
    window_size * window_size, grid[3]>>

\* Reshape to the grid, WindowPartition, the blocks, WindowReverse
GridTransformer(op, blocks, window_size, grid) ==
  <<Ran("Reshape", grid, "patch"),
    Ran("WindowPartition", WindowPartition(window_size, grid), "patch")>>
  \o BlocksRan(op, blocks, WindowPartition(window_size, grid), "patch")
  \o <<Ran("WindowReverse", grid, "patch")>>

\* AveragePooling2D(2), Reshape to tokens, Concatenate with the embedding
\* x_k of the next coarser patches
PoolAndConcatenate(grid, x_k) ==
  LET pooled == <<grid[1] \div 2, grid[2] \div 2, grid[3]>>
      tokens == <<pooled[1] * pooled[2], pooled[3]>>
  IN  <<Ran("AveragePooling2D", pooled, "patch"),
        Ran("Reshape", tokens, "patch"),
        Ran("Concatenate", <<tokens[1], tokens[2] + x_k[2]>>, "patch")>>

\* discriminator.call(input) of build_discriminator.py on an image of shape
\* `input`.  A Block built for one width and run on tokens of another either
\* raises or passes them on (strict says which); the concatenation of the
\* classification token with tokens of another width always raises.
ViT_call(m, input, strict) ==
  LET a == m.args
      h == input[1] \div a.patch_size
      w == input[2] \div a.patch_size
      x_1 == PatchEmbedCall(LayersOf(m, "patches_1")[1], input)
      x_2 == PatchEmbedCall(LayersOf(m, "patches_2")[1], input)
      x_3 == PatchEmbedCall(LayersOf(m, "patches_3")[1], input)
      grid_1 == <<h, w, x_1[2]>>
      scale_1 == <<Ran("patches_1", x_1, "patch"),
                   Ran("patches_2", x_2, "patch"),
                   Ran("patches_3", x_3, "patch"),
                   Ran("add_pos_embed_1", x_1, "patch")>>
                 \o GridTransformer("blocks_1", LayersOf(m, "blocks_1"),
                                    a.window_size, grid_1)
                 \o PoolAndConcatenate(grid_1, x_2)
      c_2 == Last(scale_1).shape[2]
      grid_2 == <<h \div 2, w \div 2, c_2>>
      tokens_2 == <<grid_2[1] * grid_2[2], c_2>>
      scale_2 == GridTransformer("blocks_2", LayersOf(m, "blocks_2"),
                                 a.window_size, grid_2)
                 \o <<Ran("Reshape", tokens_2, "patch")>>
                 \o BlocksRan("blocks_21", LayersOf(m, "blocks_21"),
                              tokens_2, "patch")
                 \o <<Ran("Reshape", grid_2, "patch")>>
                 \o PoolAndConcatenate(grid_2, x_3)
      x == Last(scale_2).shape
      blocks_3 == LayersOf(m, "blocks_3")
      scale_3 == BlocksRan("blocks_3", blocks_3, x, "patch")
      tokens == AddCLSToken_layer([i \in 1..x[1] |-> "patch"])
      with_cls == <<Len(tokens), x[2]>>
      tail == <<Ran("add_cls_token", with_cls, tokens[1])>>
              \o BlocksRan("blocks_last", LayersOf(m, "blocks_last"),
                           with_cls, tokens[1])
              \o <<Ran("layer_norm", with_cls, tokens[1]),
                   Ran("head", <<LayersOf(m, "head")[1].filters>>,
                       tokens[1])>>
  IN  IF strict /\ blocks_3 # <<>> /\ blocks_3[1].filters # x[2]
        THEN [outcome |-> "ValueError", visited |-> scale_1 \o scale_2,
              shape |-> <<>>]
      ELSE IF LayersOf(m, "add_cls_token")[1].filters # x[2]
        THEN [outcome |-> "InvalidArgumentError",
              visited |-> scale_1 \o scale_2 \o scale_3, shape |-> <<>>]
      ELSE [outcome |-> "returned",
            visited |-> scale_1 \o scale_2 \o scale_3 \o tail,
            shape |-> Last(tail).shape]

\* ------------------------------------------------------ calling a model
\* SEResNet_generator.call: the attributes its for loops run, in order
SEResNet_generator_call ==
  <<"initial_block", "res_block1", "conv_block1", "res_block2",
    "conv_block2", "res_block3", "conv_block3", "conv_block4">>

\* SEResNet_discriminator.call: the attributes its for loops run, in order
SEResNet_discriminator_call ==
  <<"conv_block1", "res_block1", "conv_block2", "res_block2",
    "conv_block3", "res_block3", "conv_block4", "res_block4",
    "header_block">>

\* the order in which a call of m runs m's stages: that of call for the two
\* subclassed models, that of assembly for Sequential and functional models
CallOrder(m) ==
  IF m.class = "SEResNet_generator" THEN SEResNet_generator_call
  ELSE IF m.class = "SEResNet_discriminator" THEN SEResNet_discriminator_call
  ELSE [i \in DOMAIN m.stages |-> m.stages[i].name]

\* x = layer(x) for each layer: the shape after the last one, <<>> once a
\* layer cannot take its input
RECURSIVE RunLayers(_, _)
RunLayers(layers, shape) ==
  IF layers = <<>> \/ shape = <<>> THEN shape
  ELSE RunLayers(Tail(layers), OutputShape(Head(layers), shape))

\* tf.keras.layers.Input(...) gives a symbolic tensor, not a layer: inside a
\* list that call iterates with x = layer(x) it cannot be called
NotCallable(m, layers) ==
  /\ m.class \in {"SEResNet_generator", "SEResNet_discriminator"}
  /\ \E i \in DOMAIN layers : layers[i].layer = "Input"

RECURSIVE RunStages(_, _, _, _)
RunStages(m, names, shape, visited) ==
  IF names = <<>>
    THEN [outcome |-> "returned", visited |-> visited, shape |-> shape]
  ELSE
    LET layers == LayersOf(m, Head(names))
        out == RunLayers(layers, shape)
    IN  IF NotCallable(m, layers)
          THEN [outcome |-> "TypeError",
                visited |-> Append(visited, Ran(Head(names), <<>>, "")),
                shape |-> <<>>]
        ELSE IF out = <<>>
          THEN [outcome |-> "ValueError",
                visited |-> Append(visited, Ran(Head(names), <<>>, "")),
                shape |-> <<>>]
        ELSE RunStages(m, Tail(names), out,
                       Append(visited, Ran(Head(names), out, "")))

\* model(input) for the convolutional models
ModelCall(m, input) == RunStages(m, CallOrder(m), input, <<>>)

\* the input a caller gives the built model: a latent vector to a generator,
\* an image of the configured size to a discriminator, an image to the rest
InputOf(m) ==
  IF m.class \in {"build_generator", "SEResNet_generator"}
    THEN <<m.args.latent_dim>>
  ELSE IF m.class = "SEResNet_discriminator"
    THEN m.args.image_size \o <<m.args.channels>>
  ELSE IF m.class = "ViT_discriminator" THEN m.args.image_size \o <<3>>
  ELSE <<32, 32, 3>>

\* ------------------------------------------------- the builders, called
\* the arguments the caller draws from
ImageSizes == {<<16, 16>>, <<32, 16>>, <<40, 24>>, <<64, 64>>}
ResnetArgs ==
  {Str(<<>>), Str(<<"R", "e", "s">>), Str(<<"S", "E">>),
   Str(<<"S", "E", "R", "e", "s", "N", "e", "t">>),
   Str(<<"r", "e", "s", "n", "e", "t">>), PyNone}
NormTypes ==
  {Str(<<"b", "a", "t", "c", "h", "n", "o", "r", "m">>),
   Str(<<"B", "a", "t", "c", "h", "N", "o", "r", "m">>),
   Str(<<"i", "n", "s", "t", "a", "n", "c", "e", "n", "o", "r", "m">>),
   Str(<<"I", "n", "s", "t", "a", "n", "c", "e", "N", "o", "r", "m">>),
   Str(<<"l", "a", "y", "e", "r", "n", "o", "r", "m">>),
   PyNone}
PoolingArgs == {PyNone, Str(<<"m", "a", "x">>), Str(<<"a", "v", "e">>)}
GeneratorBlocks == {<<3, 3, 3>>, <<1, 0, 2>>, <<0, 0, 0>>}
DiscriminatorBlocks == {<<1, 0, 0, 0>>, <<2, 1, 0, 3>>}
EmbedDims == {4, 6, 8, 9, 12}
Depths == {1, 2, 3}

\* the caller builds one model: it has it now and has not called it yet
Returns(m) ==
  /\ pc = "builders" /\ built = NoModel
  /\ built' = m
  /\ forward_pass' = NoForward
  /\ UNCHANGED <<trainer, checkpointing, train_args, train_locals,
                 step_frame, pc, result, shown, calls, step_log>>

CallBuildGenerator ==
  /\ built = NoModel
  /\ \E image_size \in ImageSizes, channels \in {1, 3}, dense \in BOOLEAN,
        resnet \in ResnetArgs :
       Returns(build_generator(
         [latent_dim |-> 4, image_size |-> image_size, channels |-> channels,
          num_filters |-> 1, gen_kernel_size |-> <<4, 4>>, dense |-> dense,
          resnet |-> resnet]))

ConstructSEResNetGenerator ==
  /\ built = NoModel
  /\ \E image_size \in ImageSizes, dense \in BOOLEAN, resnet \in ResnetArgs,
        num_blocks \in GeneratorBlocks :
       Returns(SEResNet_generator(
         [latent_dim |-> 4, image_size |-> image_size, channels |-> 3,
          num_filters |-> 1, gen_kernel_size |-> <<4, 4>>, dense |-> dense,
          resnet |-> resnet, num_blocks |-> num_blocks]))

ConstructSEResNetDiscriminator ==
  /\ built = NoModel
  /\ \E image_size \in {<<16, 16>>, <<64, 64>>}, resnet \in ResnetArgs,
        num_blocks \in DiscriminatorBlocks, pooling \in PoolingArgs,
        batchnorm \in BOOLEAN, dropout \in BOOLEAN, dense \in BOOLEAN :
       Returns(SEResNet_discriminator(
         [image_size |-> image_size, channels |-> 3, num_filters |-> 1,
          disc_kernel_size |-> <<4, 4>>, batchnorm |-> batchnorm,
          dropout |-> dropout, dense |-> dense, pooling |-> pooling,
          resnet |-> resnet, num_blocks |-> num_blocks]))

CallDownsample ==
  /\ built = NoModel
  /\ \E norm_type \in NormTypes, apply_norm \in BOOLEAN :
       Returns(downsample(
         [filters |-> 64, size |-> 4, norm_type |-> norm_type,
          apply_norm |-> apply_norm]))

CallUpsample ==
  /\ built = NoModel
  /\ \E norm_type \in NormTypes, apply_dropout \in BOOLEAN :
       Returns(upsample(
         [filters |-> 64, size |-> 4, norm_type |-> norm_type,
          apply_dropout |-> apply_dropout]))

CallDiscriminator ==
  /\ built = NoModel
  /\ \E norm_type \in NormTypes, target \in BOOLEAN :
       Returns(PatchGan_discriminator(
         [norm_type |-> norm_type, target |-> target]))

ConstructViT ==
  /\ built = NoModel
  /\ \E image_size \in {<<16, 16>>, <<32, 16>>}, embed_dim \in EmbedDims,
        depth \in Depths :
       Returns(ViT_discriminator(
         [image_size |-> image_size, depth |-> depth, num_classes |-> 1,
          embed_dim |-> embed_dim, patch_size |-> 2, window_size |-> 4]))

\* the caller calls the model it has on an input
CallBuilt ==
  /\ pc = "builders"
  /\ built # NoModel /\ built.outcome = "built"
  /\ IF built.class = "ViT_discriminator"
       THEN \E strict \in BOOLEAN :
              forward_pass' = ViT_call(built, InputOf(built), strict)
       ELSE forward_pass' = ModelCall(built, InputOf(built))
  /\ UNCHANGED <<trainer, checkpointing, train_args, train_locals,
                 step_frame, pc, result, shown, calls, step_log, built>>

\* nothing has been built yet; no trainer is in use
BuilderInit ==
  /\ FirstTrainer
  /\ weights = [net \in Nets |-> 0]
  /\ ctor_args.checkpoint_prefix = None
  /\ train_img = <<>> /\ train_tar = <<>> /\ epochs = 0
  /\ NoFrames
  /\ pc = "builders"

BuilderNext ==
  \/ CallBuildGenerator \/ ConstructSEResNetGenerator
  \/ ConstructSEResNetDiscriminator
  \/ CallDownsample \/ CallUpsample \/ CallDiscriminator
  \/ ConstructViT \/ CallBuilt

BuilderSpec == BuilderInit /\ [][BuilderNext]_vars

\* ================================================================== claims
\* train_step is past its with-block: the tape holds this step's record
InStep == pc \in {StepOrder[i] : i \in DOMAIN StepOrder} \cup {"step_return"}

\* every gradient train_step holds is that of the network's own total loss in
\* the network's own variable, and every apply_gradients so far paired an
\* optimizer with its own network
C1_OwnGradients ==
  InStep =>
    /\ \A net \in DOMAIN gradients :
         gradients[net] = TapeGradient(tape, OwnLoss[net], net)
    /\ \A i \in DOMAIN step_log :
         /\ step_log[i][1] = "gradient" =>
              step_log[i][2] = OwnLoss[step_log[i][3]]
         /\ step_log[i][1] = "apply_gradients" =>
              step_log[i][2] = OptimizerOf[step_log[i][3]]

\* a step that changes a network's variable or an optimizer's state is an
\* apply_gradients of that network's own optimizer on that network, and it
\* changes no other network and no other optimizer
C1_OwnUpdates ==
  \A net \in Nets :
    (\/ weights'[net] # weights[net]
     \/ optimizers'[OptimizerOf[net]] # optimizers[OptimizerOf[net]])
    => /\ Len(step_log') = Len(step_log) + 1
       /\ Last(step_log') = <<"apply_gradients", OptimizerOf[net], net>>
       /\ \A other \in Nets \ {net} :
            /\ weights'[other] = weights[other]
            /\ optimizers'[OptimizerOf[other]] = optimizers[OptimizerOf[other]]

\* C1: in every train_step each total loss is differentiated in its own
\* network's variables only, and each optimizer updates its own network only:
\* no optimizer ever modifies another network's parameters.
C1_Theorem == [](C1_OwnGradients) /\ [][C1_OwnUpdates]_vars

\* a train_step whose four updates have all moved their network's variable
C1_Witness ==
  /\ pc = "step_return"
  /\ \A net \in Nets : weights[net] # tape.watched[net]

\* C2: total_gen_g_loss = generator_loss(disc_y(fake_y)) + (cycle_loss(real_x,
\* cycled_x) + cycle_loss(real_y, cycled_y)) + identity_loss(real_y, same_y),
\* total_gen_f_loss = generator_loss(disc_x(fake_x)) + the same cycle term +
\* identity_loss(real_x, same_x): the totals differ only in their adversarial
\* and identity terms.
C2_Theorem ==
  InStep =>
    LET f == tape.forward
        W == tape.watched
        cycle == calc_cycle_loss(real_x, f.cycled_x)
                   + calc_cycle_loss(real_y, f.cycled_y)
        adv_g == generator_loss(
                   CallModel("discriminator_y", W["discriminator_y"], f.fake_y))
        adv_f == generator_loss(
                   CallModel("discriminator_x", W["discriminator_x"], f.fake_x))
        id_g == identity_loss(real_y, f.same_y)
        id_f == identity_loss(real_x, f.same_x)
    IN  /\ tape.losses.total_gen_g_loss = adv_g + cycle + id_g
        /\ tape.losses.total_gen_f_loss = adv_f + cycle + id_f
        /\ tape.losses.total_gen_g_loss - tape.losses.total_gen_f_loss
             = (adv_g + id_g) - (adv_f + id_f)

\* a step with a positive cycle term whose two identity terms differ
C2_Witness ==
  /\ InStep
  /\ tape.losses.total_cycle_loss > 0
  /\ identity_loss(real_y, tape.forward.same_y)
       # identity_loss(real_x, tape.forward.same_x)
  /\ identity_loss(real_y, tape.forward.same_y) > 0

\* C3: fake_y = G(real_x), cycled_x = F(fake_y), fake_x = F(real_y),
\* cycled_y = G(fake_x), same_x = F(real_x), same_y = G(real_y);
\* discriminator_x scores real_x and fake_x, discriminator_y scores real_y and
\* fake_y.
C3_Theorem ==
  InStep =>
    LET f == tape.forward
        G(x) == CallModel("generator_g", tape.watched["generator_g"], x)
        F(x) == CallModel("generator_f", tape.watched["generator_f"], x)
        DX(x) == CallModel("discriminator_x", tape.watched["discriminator_x"], x)
        DY(x) == CallModel("discriminator_y", tape.watched["discriminator_y"], x)
    IN  /\ f.fake_y = G(real_x)
        /\ f.cycled_x = F(G(real_x))
        /\ f.fake_x = F(real_y)
        /\ f.cycled_y = G(F(real_y))
        /\ f.same_x = F(real_x)
        /\ f.same_y = G(real_y)
        /\ f.disc_real_x = DX(real_x)
        /\ f.disc_fake_x = DX(F(real_y))
        /\ f.disc_real_y = DY(real_y)
        /\ f.disc_fake_y = DY(G(real_x))

\* a step in which the two generators and the two discriminators are told
\* apart: exchanging either pair would change what is computed
C3_Witness ==
  /\ InStep
  /\ tape.forward.fake_y
       # CallModel("generator_f", tape.watched["generator_f"], real_x)
  /\ tape.forward.fake_x
       # CallModel("generator_g", tape.watched["generator_g"], real_y)
  /\ tape.forward.disc_fake_x
       # CallModel("discriminator_y", tape.watched["discriminator_y"],
                   tape.forward.fake_x)
  /\ tape.forward.disc_fake_y
       # CallModel("discriminator_x", tape.watched["discriminator_x"],
                   tape.forward.fake_y)

\* the train_step calls of train that have returned
NumReturned ==
  Cardinality({i \in DOMAIN calls : calls[i].call = "train_step_return"})

\* the apply_gradients calls of this train_step on network net
AppliesOn(net) ==
  {i \in DOMAIN step_log :
     step_log[i][1] = "apply_gradients" /\ step_log[i][3] = net}

ProgramLog ==
  << <<"gradient", "total_gen_g_loss", "generator_g">>,
     <<"gradient", "total_gen_f_loss", "generator_f">>,
     <<"gradient", "disc_x_loss", "discriminator_x">>,
     <<"gradient", "disc_y_loss", "discriminator_y">>,
     <<"apply_gradients", "generator_g_optimizer", "generator_g">>,
     <<"apply_gradients", "generator_f_optimizer", "generator_f">>,
     <<"apply_gradients", "discriminator_x_optimizer", "discriminator_x">>,
     <<"apply_gradients", "discriminator_y_optimizer", "discriminator_y">> >>

\* C5: within one train_step the four gradients are computed before the first
\* update, so each is the gradient at the parameters all four networks had
\* when the step began; the updates then come in the order generator_g,
\* generator_f, discriminator_x, discriminator_y.
C5_Theorem ==
  InStep =>
    /\ Len(step_log) <= Len(ProgramLog)
    /\ step_log = SubSeq(ProgramLog, 1, Len(step_log))
    /\ (\A i \in DOMAIN step_log : step_log[i][1] = "gradient") =>
         /\ weights = tape.watched
         /\ \A net \in DOMAIN gradients :
              gradients[net] = TapeGradient(GradientTape(weights, real_x, real_y),
                                            OwnLoss[net], net)
    /\ pc = "step_return" => step_log = ProgramLog

\* a completed step in which the order matters: generator_f's gradient would
\* have been another one had it been taken after generator_g's update
C5_Witness ==
  /\ pc = "step_return"
  /\ weights["generator_g"] # tape.watched["generator_g"]
  /\ gradients["generator_f"]
       # TapeGradient(
           GradientTape([tape.watched EXCEPT
                           !["generator_g"] = weights["generator_g"]],
                        real_x, real_y),
           "total_gen_f_loss", "generator_f")

\* C6: train_step returns (disc_x_loss, total_gen_g_loss) in that order;
\* disc_y_loss and total_gen_f_loss are computed but not returned.
C6_Theorem ==
  step_ret # Unbound =>
    LET W == tape.watched
        rx == tape.real_x
        ry == tape.real_y
        fake_x == CallModel("generator_f", W["generator_f"], ry)
        fake_y == CallModel("generator_g", W["generator_g"], rx)
        cycled_x == CallModel("generator_f", W["generator_f"], fake_y)
        cycled_y == CallModel("generator_g", W["generator_g"], fake_x)
        same_y == CallModel("generator_g", W["generator_g"], ry)
        DX(x) == CallModel("discriminator_x", W["discriminator_x"], x)
        DY(x) == CallModel("discriminator_y", W["discriminator_y"], x)
    IN  /\ Len(step_ret) = 2
        /\ step_ret[1] = discriminator_loss(DX(rx), DX(fake_x))
        /\ step_ret[2] = generator_loss(DY(fake_y))
                           + calc_cycle_loss(rx, cycled_x)
                           + calc_cycle_loss(ry, cycled_y)
                           + identity_loss(ry, same_y)
        /\ {"disc_y_loss", "total_gen_f_loss"} \subseteq DOMAIN tape.losses

\* a returned pair that is neither the other discriminator's and generator's
\* losses nor the same pair in the other order
C6_Witness ==
  /\ step_ret # Unbound
  /\ step_ret[1] # tape.losses.disc_y_loss
  /\ step_ret[2] # tape.losses.total_gen_f_loss
  /\ step_ret[1] # step_ret[2]

\* the places in calls of the calls named name that train made in epoch e
CallsOf(name, e) ==
  {i \in DOMAIN calls : calls[i].call = name /\ calls[i].epoch = e}

\* the train_step calls of epoch e, in order
StepsOf(e) ==
  LET InEpoch(c) == c.call = "train_step" /\ c.epoch = e
  IN  SelectSeq(calls, InEpoch)

\* the batch pairs one epoch trains on
NumPairs == Min(Len(train_img), Len(train_tar))

\* C7: train returns three parallel sequences (epoch index, generator loss,
\* discriminator loss) with one entry per epoch, the indices 1..epochs in
\* order, and the losses of an epoch are those the last train_step of that
\* epoch returned.
C7_Theorem ==
  pc = "returned" =>
    LET r == result.returned
    IN  /\ Len(r) = 3
        /\ \A i \in 1..3 : Len(r[i]) = epochs
        /\ r[1] = [k \in 1..epochs |-> k]
        /\ \A k \in 1..epochs :
             /\ CallsOf("train_step_return", k - 1) # {}
             /\ LET last == CHOOSE i \in CallsOf("train_step_return", k - 1) :
                              \A j \in CallsOf("train_step_return", k - 1) : j <= i
                IN  /\ r[2][k] = calls[last].ret[2]
                    /\ r[3][k] = calls[last].ret[1]

\* train returned after two epochs, and in one of them two train_steps
\* returned different losses
C7_Witness ==
  /\ pc = "returned"
  /\ epochs >= 2
  /\ \E e \in 0..(epochs - 1) :
       \E i, j \in CallsOf("train_step_return", e) :
         /\ i < j
         /\ calls[i].ret[1] # calls[j].ret[1]
         /\ calls[i].ret[2] # calls[j].ret[2]

\* C8: in every epoch all train_step calls complete before the sample is
\* emitted, generate_images is called exactly once per epoch and always with
\* generator_g, and no train_step of the next epoch starts before the sample
\* of this one.
C8_Theorem ==
  /\ \A i \in DOMAIN calls :
       calls[i].call = "generate_images" =>
         LET e == calls[i].epoch
         IN  /\ calls[i].model = "generator_g"
             /\ CallsOf("generate_images", e) = {i}
             /\ Cardinality(CallsOf("train_step", e)) = NumPairs
             /\ Cardinality(CallsOf("train_step_return", e)) = NumPairs
             /\ \A j \in CallsOf("train_step", e)
                         \cup CallsOf("train_step_return", e) : j < i
  /\ \A e \in 0..(epoch - 1) : Cardinality(CallsOf("generate_images", e)) = 1
  /\ \A j \in DOMAIN calls :
       (calls[j].call = "train_step" /\ calls[j].epoch > 0) =>
         \E i \in CallsOf("generate_images", calls[j].epoch - 1) : i < j

\* the second epoch's sample has been emitted after two train_steps in each
\* epoch
C8_Witness ==
  /\ Cardinality(CallsOf("generate_images", 1)) = 1
  /\ Cardinality(CallsOf("train_step_return", 0)) = 2
  /\ Cardinality(CallsOf("train_step_return", 1)) = 2

\* C9 as stated: the sampled input is the same in every epoch and is none of
\* the batches train_step is run on.
C9_Original ==
  \A i \in DOMAIN calls :
    calls[i].call = "generate_images" =>
      /\ \A j \in DOMAIN calls :
           calls[j].call = "generate_images" => calls[j].x = calls[i].x
      /\ \A j \in DOMAIN calls :
           calls[j].call = "train_step" => calls[j].x # calls[i].x

\* C9, amended: the sampled input is the first batch of train_img, the same
\* in every epoch, and it is the batch the first train_step of the epoch ran
\* on as real_x (it is not held out).
C9_Theorem ==
  /\ \A i \in DOMAIN calls :
       calls[i].call = "generate_images" =>
         /\ calls[i].x = train_img[1]
         /\ StepsOf(calls[i].epoch) # <<>>
         /\ StepsOf(calls[i].epoch)[1].x = calls[i].x
  /\ \A k \in DOMAIN shown :
       /\ shown[k].test_input = train_img[1]
       /\ shown[k].model = "generator_g"

\* two epochs have sampled, from a train_img of several batches
C9_Witness ==
  /\ Len(shown) = 2
  /\ Len(train_img) >= 2
  /\ Cardinality(CallsOf("generate_images", 1)) = 1

\* C10: in each epoch the i-th train_step gets the i-th batch of train_img
\* and the i-th batch of train_tar, there is one train_step per pair, their
\* number is the smaller of the two batch counts, and no batch beyond it is
\* used.
C10_Theorem ==
  /\ \A e \in 0..MaxEpochs :
       /\ Len(StepsOf(e)) <= NumPairs
       /\ \A k \in DOMAIN StepsOf(e) :
            /\ StepsOf(e)[k].x = train_img[k]
            /\ StepsOf(e)[k].y = train_tar[k]
       /\ (e < epoch \/ (e = epoch /\ pc \in {"sample", "generate_images",
                                               "record"}))
            => Len(StepsOf(e)) = NumPairs
  /\ \A i \in DOMAIN calls :
       /\ calls[i].call \in {"train_step", "generate_images"} =>
            \E k \in 1..NumPairs : calls[i].x = train_img[k]
       /\ calls[i].call = "train_step" =>
            \E k \in 1..NumPairs : calls[i].y = train_tar[k]

\* an epoch's loop has ended on datasets of different batch counts
C10_Witness ==
  /\ pc = "record"
  /\ Len(train_img) # Len(train_tar)
  /\ NumPairs >= 1
  /\ Len(StepsOf(epoch)) = NumPairs

\* C11: a failure of generate_images never affects training state: when the
\* visualization call of an epoch raises, train goes on exactly as after a
\* call that succeeded: it records the epoch next, with the networks, the
\* optimizers, the loss history and the epochs still to run untouched.
C11_Original ==
  [][pc = "generate_images" =>
       /\ pc' = "record"
       /\ UNCHANGED <<trainer, train_args, train_locals>>]_vars

\* C12: a train_step that raises during train ends the run there: the step
\* is not retried and nothing is called after it, no later step or epoch runs,
\* train raises instead of returning loss curves, and on no path does train
\* save or restore a checkpoint.
C12_Theorem ==
  /\ \A i \in 1..(Len(calls) - 1) :
       calls[i].call = "train_step" =>
         /\ calls[i + 1].call = "train_step_return"
         /\ calls[i + 1].x = calls[i].x /\ calls[i + 1].y = calls[i].y
  /\ pc = "raised" =>
       /\ ~ENABLED Next
       /\ DOMAIN result = {"raised"}
       /\ result.raised = "train_step" =>
            /\ Last(calls).call = "train_step"
            /\ Len(epoch_list) = epoch
            /\ Cardinality({i \in DOMAIN calls :
                              calls[i].call = "train_step"}) = NumReturned + 1
  /\ save_counter = 0 /\ files = <<>> /\ last_call = NoCall

\* a step of the second epoch failed with a batch still to come
C12_Witness ==
  /\ pc = "raised" /\ result.raised = "train_step"
  /\ epoch = 1 /\ iterator # <<>>

\* C13: on a trainer constructed with checkpoint_prefix = P, save() without an
\* argument writes a new numbered checkpoint under P and returns its path.
C13_Original ==
  (/\ last_call.op = "save"
   /\ last_call.arg = <<None>>
   /\ Truthy(ctor_args.checkpoint_prefix))
  => /\ last_call.outcome = "returned"
     /\ \E path \in DOMAIN files :
          /\ last_call.ret = <<path>>
          /\ path[1] = ctor_args.checkpoint_prefix

\* the pixel enumeration's images
Images == {Image(k) : k \in 0..(3 ^ TensorLen - 1)}

\* C14: save then restore round-trips: once a trainer has been restored from
\* the path a save returned, its four networks' variables and its four
\* optimizers' states are those the saving trainer had when it saved, so each
\* network maps every input to the output the saving trainer's network gave.
C14_Theorem ==
  last_call.op = "restore" =>
    LET A == saved_from[last_call.arg[1]]
    IN  /\ weights = A.weights
        /\ optimizers = A.optimizers
        /\ \A net \in Nets, x \in Images :
             CallModel(net, weights[net], x) = CallModel(net, A.weights[net], x)

\* trainer 0 made a train_step and saved, trainer 1 was constructed with
\* other initial variables and restored from the path
C14_Witness ==
  /\ last_call.op = "restore" /\ ncalls = 4 /\ self_id = 1
  /\ LET A == saved_from[last_call.arg[1]]
     IN  /\ A.trainer = 0
         /\ \A o \in Optimizers : A.optimizers[o].iterations = 1

\* the names the checkpoint is to track
EightNames ==
  {"generator_g", "generator_f", "discriminator_x", "discriminator_y",
   "generator_g_optimizer", "generator_f_optimizer",
   "discriminator_x_optimizer", "discriminator_y_optimizer"}

\* C15: the one checkpoint object tracks exactly eight objects under the fixed
\* names, each name bound to the object of that name the trainer trains with:
\* a save writes the current state of each under its name, and a restore sets
\* all eight from the file, never a subset.
C15_Theorem ==
  /\ DOMAIN Checkpoint = EightNames /\ Cardinality(DOMAIN Checkpoint) = 8
  /\ \A path \in DOMAIN files : DOMAIN files[path].objects = EightNames
  /\ (last_call.op \in {"save", "restore"} /\ last_call.outcome = "returned")
       => LET path == IF last_call.op = "save" THEN last_call.ret[1]
                                               ELSE last_call.arg[1]
          IN  /\ \A net \in Nets : files[path].objects[net] = weights[net]
              /\ \A o \in Optimizers :
                   files[path].objects[o] = optimizers[o]

\* a trainer that went on training after its save is restored: the variables
\* and the optimizer states are back at the save
C15_Witness ==
  /\ last_call.op = "restore" /\ self_id = 0 /\ ncalls = 4
  /\ save_counter = 1
  /\ \A o \in Optimizers : optimizers[o].iterations = 1
  /\ \E net \in Nets : weights[net] # 0

\* C16: a checkpoint is immutable once written: after a trainer's save has
\* returned path p, no later train_step, save or restore of that trainer
\* changes what restore(p) loads, every later save writing a new, differently
\* numbered checkpoint.
C16_Original ==
  [][\A p \in DOMAIN files :
       (saved_from[p].trainer = self_id /\ self_id' = self_id)
       => /\ p \in DOMAIN files'
          /\ files'[p] = files[p]]_vars

\* C17: the trainer constructs four distinct Adam optimizers, one per network,
\* each configured with the learning_rate, beta_1 and beta_2 given to the
\* constructor.
C17_Original ==
  /\ Cardinality({OptimizerOf[net] : net \in Nets}) = 4
  /\ \A o \in Optimizers :
       /\ optimizers[o].learning_rate = ctor_args.learning_rate
       /\ optimizers[o].beta_1 = ctor_args.beta_1
       /\ optimizers[o].beta_2 = ctor_args.beta_2

\* the target tensors of the adversarial terms
Ones == [i \in 1..TensorLen |-> 1]
Zeros == [i \in 1..TensorLen |-> 0]

\* the discriminator scores of this train_step
Scores ==
  {tape.forward.disc_real_x, tape.forward.disc_real_y,
   tape.forward.disc_fake_x, tape.forward.disc_fake_y}

\* C18: for all score tensors r and g, discriminator_loss(r, g) is half of
\* BCE(ones, r) + BCE(zeros, g) and generator_loss(g) is BCE(ones, g): real
\* scores and the generator's fakes are compared against 1, the
\* discriminator's fakes against 0.  The losses train_step records are these.
C18_Theorem ==
  InStep =>
    /\ \A r \in Scores, g \in Scores :
         /\ 2 * discriminator_loss(r, g)
              <= loss_obj(Ones, r) + loss_obj(Zeros, g)
         /\ loss_obj(Ones, r) + loss_obj(Zeros, g)
              <= 2 * discriminator_loss(r, g) + 1
         /\ generator_loss(g) = loss_obj(Ones, g)
         /\ generator_loss(g) =
              reduce_mean([i \in DOMAIN g |->
                 Scale * Max(-g[i], 0) + SoftplusNeg(Abs(g[i]))])
    /\ tape.losses.disc_x_loss =
         (loss_obj(Ones, tape.forward.disc_real_x)
            + loss_obj(Zeros, tape.forward.disc_fake_x)) \div 2
    /\ tape.losses.disc_y_loss =
         (loss_obj(Ones, tape.forward.disc_real_y)
            + loss_obj(Zeros, tape.forward.disc_fake_y)) \div 2
    /\ tape.losses.gen_g_loss = loss_obj(Ones, tape.forward.disc_fake_y)
    /\ tape.losses.gen_f_loss = loss_obj(Ones, tape.forward.disc_fake_x)

\* a step whose discriminator scores the real batch and the fake one
\* differently, so that the two targets cannot be exchanged
C18_Witness ==
  /\ pc = "step_return"
  /\ tape.forward.disc_real_x # tape.forward.disc_fake_x
  /\ tape.losses.disc_x_loss #
       (loss_obj(Zeros, tape.forward.disc_real_x)
          + loss_obj(Ones, tape.forward.disc_fake_x)) \div 2
  /\ tape.losses.gen_g_loss > 0

\* the image tensors of the run: the batches of the two datasets and, during
\* a train_step, the images of its forward pass
Tensors ==
  {train_img[i] : i \in DOMAIN train_img}
    \cup {train_tar[i] : i \in DOMAIN train_tar}
    \cup (IF InStep
            THEN {tape.forward.fake_x, tape.forward.fake_y,
                  tape.forward.cycled_x, tape.forward.cycled_y,
                  tape.forward.same_x, tape.forward.same_y}
            ELSE {})

\* C19: for any image tensor a, calc_cycle_loss(a, a) = 0 and
\* identity_loss(a, a) = 0: a train_step whose cycle gives back both inputs
\* records a zero cycle loss, and one whose generator leaves its own domain's
\* input as it is adds no identity term to that generator's total.
C19_Theorem ==
  /\ \A a \in Tensors :
       calc_cycle_loss(a, a) = 0 /\ identity_loss(a, a) = 0
  /\ InStep =>
       /\ (tape.forward.cycled_x = tape.real_x
           /\ tape.forward.cycled_y = tape.real_y)
          => tape.losses.total_cycle_loss = 0
       /\ tape.forward.same_y = tape.real_y
          => tape.losses.total_gen_g_loss =
               tape.losses.gen_g_loss + tape.losses.total_cycle_loss
       /\ tape.forward.same_x = tape.real_x
          => tape.losses.total_gen_f_loss =
               tape.losses.gen_f_loss + tape.losses.total_cycle_loss

\* a step on a batch that is not all zero, whose generators are both the
\* identity on it
C19_Witness ==
  /\ InStep
  /\ \E i \in DOMAIN tape.real_y : tape.real_y[i] # 0
  /\ tape.forward.cycled_x = tape.real_x
  /\ tape.forward.cycled_y = tape.real_y
  /\ tape.forward.same_y = tape.real_y
  /\ tape.forward.same_x = tape.real_x

\* the part of generator_g's total that is not adversarial
NonAdversarialG ==
  calc_cycle_loss(tape.real_x, tape.forward.cycled_x)
    + calc_cycle_loss(tape.real_y, tape.forward.cycled_y)
    + identity_loss(tape.real_y, tape.forward.same_y)

\* the discriminator, cycle and identity losses of this train_step are all
\* non-negative
NonNegativeLosses ==
  /\ tape.losses.disc_x_loss >= 0 /\ tape.losses.disc_y_loss >= 0
  /\ calc_cycle_loss(tape.real_x, tape.forward.cycled_x) >= 0
  /\ calc_cycle_loss(tape.real_y, tape.forward.cycled_y) >= 0
  /\ tape.losses.total_cycle_loss >= 0
  /\ identity_loss(tape.real_y, tape.forward.same_y) >= 0
  /\ identity_loss(tape.real_x, tape.forward.same_x) >= 0

\* C20 as stated: in every train_step the discriminator, cycle and identity
\* losses are non-negative and the generator-G total it returns exceeds the
\* raw adversarial term generator_loss(discriminator_y(fake_y)).
C20_Original ==
  step_ret # Unbound =>
    /\ NonNegativeLosses
    /\ step_ret[2] > generator_loss(tape.forward.disc_fake_y)

\* C20: in every train_step the discriminator, cycle and identity losses are
\* non-negative, and the generator-G total it returns is the raw adversarial
\* term plus the cycle and identity terms: never below the adversarial term,
\* above it exactly when a cycle or identity term is positive.
C20_Theorem ==
  /\ InStep => NonNegativeLosses
  /\ step_ret # Unbound =>
       /\ NonNegativeLosses
       /\ step_ret[2] >= generator_loss(tape.forward.disc_fake_y)
       /\ step_ret[2] =
            generator_loss(tape.forward.disc_fake_y) + NonAdversarialG
       /\ step_ret[2] > generator_loss(tape.forward.disc_fake_y)
            <=> (\/ tape.forward.cycled_x # tape.real_x
                 \/ tape.forward.cycled_y # tape.real_y
                 \/ tape.forward.same_y # tape.real_y)

\* a train_step has returned a total with a positive cycle term and a
\* positive identity term
C20_Witness ==
  /\ step_ret # Unbound
  /\ calc_cycle_loss(tape.real_x, tape.forward.cycled_x) > 0
  /\ identity_loss(tape.real_y, tape.forward.same_y) > 0
  /\ step_ret[2] > generator_loss(tape.forward.disc_fake_y)

\* ------------------------------------------------- claims on the builders

\* the kinds of the layers of a list, in order
Kinds(layers) == [i \in DOMAIN layers |-> layers[i].layer]
\* the positions of a list that hold a layer of one of the kinds
Positions(layers, kinds) == {i \in DOMAIN layers : layers[i].layer \in kinds}
ResidualKinds == {"ResNet_Block", "SEResNet_Block"}
\* the layer that follows the Reshape to the projection shape
AfterProjection(layers) ==
  layers[1 + CHOOSE i \in DOMAIN layers :
               /\ layers[i].layer = "Reshape"
               /\ \A j \in DOMAIN layers : layers[j].layer = "Reshape" => j <= i]

\* C21: build_generator adopts residual blocks as its docstring says: a
\* ResNet block follows the projection when resnet is 'Res', an SE-ResNet
\* block follows it when resnet is 'SE', and with resnet None the generator
\* is built without a residual block.
C21_Original ==
  built.class = "build_generator" =>
    /\ built.args.resnet = Str(<<"R", "e", "s">>) =>
         /\ built.outcome = "built"
         /\ AfterProjection(built.stages[1].layers).layer = "ResNet_Block"
    /\ built.args.resnet = Str(<<"S", "E">>) =>
         /\ built.outcome = "built"
         /\ AfterProjection(built.stages[1].layers).layer = "SEResNet_Block"
    /\ built.args.resnet = PyNone =>
         /\ built.outcome = "built"
         /\ Positions(built.stages[1].layers, ResidualKinds) = {}

GeneratorBuilders == {"build_generator", "SEResNet_generator"}

\* C22: for every image_size (H, W) and channels c, a generator built by
\* build_generator or SEResNet_generator and called on a latent vector gives
\* an image of shape (H, W, c).
C22_Original ==
  built.class \in GeneratorBuilders /\ forward_pass # NoForward =>
    /\ forward_pass.outcome = "returned"
    /\ forward_pass.shape = built.args.image_size \o <<built.args.channels>>

NormKinds == {"BatchNormalization", "InstanceNormalization"}
\* the normalization a norm_type names, compared without regard to case;
\* "" when it names none
NamedNorm(norm_type) ==
  IF norm_type.type # "str" THEN ""
  ELSE IF Lower(norm_type.chars) = Lower(<<"B", "a", "t", "c", "h",
                                           "N", "o", "r", "m">>)
    THEN "BatchNormalization"
  ELSE IF Lower(norm_type.chars) = Lower(<<"I", "n", "s", "t", "a", "n", "c",
                                           "e", "N", "o", "r", "m">>)
    THEN "InstanceNormalization"
  ELSE ""
\* the layers hold one normalization layer, of the kind, right after the
\* convolution that opens them
OneNormAfter(conv, kind, layers) ==
  /\ Len(layers) >= 2
  /\ layers[1].layer = conv
  /\ layers[2].layer = kind
  /\ Positions(layers, NormKinds) = {2}
\* the layers the PatchGAN discriminator adds itself, after its downsamples
OwnLayers(m) ==
  LayersOf(m, "conv") \o LayersOf(m, "norm1") \o LayersOf(m, "leaky_relu")
    \o LayersOf(m, "zero_pad2") \o LayersOf(m, "last")
NormResolved(m) ==
  /\ m.class = "downsample" /\ ~m.args.apply_norm =>
       /\ m.outcome = "built"
       /\ Positions(m.stages[1].layers, NormKinds) = {}
  /\ m.class = "downsample" /\ m.args.apply_norm
       /\ NamedNorm(m.args.norm_type) # "" =>
       /\ m.outcome = "built"
       /\ OneNormAfter("Conv2D", NamedNorm(m.args.norm_type),
                       m.stages[1].layers)
  /\ m.class = "upsample" /\ NamedNorm(m.args.norm_type) # "" =>
       /\ m.outcome = "built"
       /\ OneNormAfter("Conv2DTranspose", NamedNorm(m.args.norm_type),
                       m.stages[1].layers)
  /\ m.class = "discriminator" /\ NamedNorm(m.args.norm_type) # "" =>
       /\ m.outcome = "built"
       /\ OneNormAfter("Conv2D", NamedNorm(m.args.norm_type), OwnLayers(m))

\* C23: for norm_type 'batchnorm' or 'instancenorm' in any case, downsample
\* with apply_norm, upsample and the PatchGAN discriminator are built with
\* exactly one normalization layer of that kind right after their
\* convolution, downsample without apply_norm is built with none, and once a
\* model is built no step, a call of it included, changes its layers.
C23_Theorem ==
  [][/\ NormResolved(built')
     /\ built # NoModel => built' = built]_vars

\* a PatchGAN discriminator built with norm_type 'InstanceNorm' has been
\* called and still has its one InstanceNormalization layer
C23_Witness ==
  /\ built.class = "discriminator"
  /\ built.args.norm_type
       = Str(<<"I", "n", "s", "t", "a", "n", "c", "e", "N", "o", "r", "m">>)
  /\ forward_pass # NoForward /\ forward_pass.outcome = "returned"
  /\ LayersOf(built, "norm1") = <<Plain("InstanceNormalization")>>

\* the operations a call ran, in order
OpsOf(visited) == [i \in DOMAIN visited |-> visited[i].op]
Repeat(op, count) == [i \in 1..count |-> op]
IsPrefix(s, t) == Len(s) <= Len(t) /\ s = SubSeq(t, 1, Len(s))
BlockOps == {"blocks_1", "blocks_2", "blocks_21", "blocks_3", "blocks_last"}
\* the blocks of a call that ran on windows: after a WindowPartition and
\* before the WindowReverse that follows it
OnWindows(visited) ==
  {visited[i].op : i \in
     {i \in DOMAIN visited :
        /\ visited[i].op \in BlockOps
        /\ \E j \in 1..i :
             /\ visited[j].op = "WindowPartition"
             /\ \A k \in j..i : visited[k].op # "WindowReverse"}}
\* the blocks of a call that ran on the whole token sequence
OnAllTokens(visited) ==
  {visited[i].op : i \in {i \in DOMAIN visited : visited[i].op \in BlockOps}}
    \ OnWindows(visited)
\* the entries of a call from the classification token on
FromCLSToken(visited) ==
  {i \in DOMAIN visited :
     visited[i].op \in {"add_cls_token", "blocks_last", "layer_norm", "head"}}
ViTCalled == built.class = "ViT_discriminator" /\ forward_pass # NoForward

\* C24: a call of the ViT discriminator that returns has embedded patches
\* at three granularities, run self-attention on windows at the finest scale
\* only (blocks_1), run every other block on the whole token sequence, put
\* the classification token at position 0 and projected the token at
\* position 0 to the logits.
C24_Original ==
  ViTCalled /\ forward_pass.outcome = "returned" =>
    /\ SubSeq(OpsOf(forward_pass.visited), 1, 3)
         = <<"patches_1", "patches_2", "patches_3">>
    /\ OnWindows(forward_pass.visited) = {"blocks_1"}
    /\ {"blocks_21", "blocks_3", "blocks_last"}
         \subseteq OnAllTokens(forward_pass.visited)
    /\ \A i \in FromCLSToken(forward_pass.visited) :
         forward_pass.visited[i].token0 = "cls_token"
    /\ Last(forward_pass.visited).op = "head"

\* the stage sequence of discriminator.call for a model built with `depth`
StageSequence(depth) ==
  <<"patches_1", "patches_2", "patches_3", "add_pos_embed_1",
    "Reshape", "WindowPartition">>
  \o Repeat("blocks_1", depth)
  \o <<"WindowReverse", "AveragePooling2D", "Reshape", "Concatenate",
       "Reshape", "WindowPartition">>
  \o Repeat("blocks_2", depth - 1)
  \o <<"WindowReverse", "Reshape", "blocks_21", "Reshape",
       "AveragePooling2D", "Reshape", "Concatenate">>
  \o Repeat("blocks_3", depth)
  \o <<"add_cls_token", "blocks_last", "layer_norm", "head">>

\* C24: every call of a ViT discriminator runs the one stage sequence its
\* depth fixes, up to the stage that raises if one does: patches at three
\* granularities, the depth blocks of blocks_1 on windows at the finest
\* scale, pooling and concatenation, the depth - 1 blocks of blocks_2 on
\* windows at the second scale, then on the whole token sequence blocks_21,
\* after the second pooling and concatenation blocks_3, the classification
\* token at position 0, blocks_last, the layer norm, and the head on the
\* token at position 0, which is the classification token.
C24_Theorem ==
  ViTCalled =>
    /\ IsPrefix(OpsOf(forward_pass.visited), StageSequence(built.args.depth))
    /\ OnWindows(forward_pass.visited) \subseteq {"blocks_1", "blocks_2"}
    /\ forward_pass.outcome = "returned" =>
         /\ OpsOf(forward_pass.visited) = StageSequence(built.args.depth)
         /\ OnWindows(forward_pass.visited)
              = {"blocks_1"} \cup (IF built.args.depth > 1 THEN {"blocks_2"}
                                                           ELSE {})
         /\ OnAllTokens(forward_pass.visited)
              = {"blocks_21", "blocks_3", "blocks_last"}
         /\ \A i \in FromCLSToken(forward_pass.visited) :
              forward_pass.visited[i].token0 = "cls_token"
         /\ Last(forward_pass.visited).op = "head"
         /\ forward_pass.shape = <<built.args.num_classes>>

\* a ViT discriminator of depth 3 was called and returned its logits
C24_Witness ==
  /\ ViTCalled /\ forward_pass.outcome = "returned"
  /\ built.args.depth = 3
  /\ "blocks_2" \in OnWindows(forward_pass.visited)
  /\ Last(forward_pass.visited).token0 = "cls_token"

\* ------------------------------------------------ train on empty datasets
\* train was called with epochs >= 1 on datasets whose zip has no pair
NoBatchPair == Zip(train_img, train_tar) = <<>> /\ epochs >= 1
TrainStepCalls == {i \in DOMAIN calls : calls[i].call = "train_step"}
NothingRecorded ==
  epoch_list = <<>> /\ gen_loss_list = <<>> /\ disc_loss_list = <<>>

\* C25: when the zip yields no pair, train with epochs >= 1 calls train_step
\* zero times and fails in the first epoch at the read of the never-assigned
\* losses (an UnboundLocalError), having recorded nothing and returning
\* nothing.
C25_Original ==
  NoBatchPair =>
    /\ TrainStepCalls = {}
    /\ NothingRecorded
    /\ pc # "returned"
    /\ pc = "raised" =>
         /\ epoch = 0
         /\ result = [raised |-> "UnboundLocalError"]

\* C25: when the zip yields no pair, train with epochs >= 1 calls train_step
\* zero times and fails in the first epoch, recording nothing, displaying
\* nothing and returning nothing; the failure is the StopIteration of
\* next(iter(...)) on the empty dataset, raised before the losses are read.
C25_Theorem ==
  NoBatchPair =>
    /\ TrainStepCalls = {}
    /\ NothingRecorded
    /\ shown = <<>>
    /\ disc_loss = Unbound /\ gen_loss = Unbound
    /\ pc \notin {"returned", "generate_images", "record"}
    /\ pc = "raised" =>
         /\ epoch = 0
         /\ result = [raised |-> "StopIteration"]
    /\ ~ENABLED Next => pc = "raised"

\* train has failed in its first epoch on an empty target dataset, the
\* image dataset having batches
C25_Witness ==
  /\ NoBatchPair /\ train_img # <<>> /\ train_tar = <<>>
  /\ pc = "raised" /\ epoch = 0
  /\ sample_img = First(train_img)

\* ------------------------------------------- widths in the ViT discriminator
\* the token width after the k-th Concatenate of a call
WidthAfterConcatenate(visited, k) ==
  LET at == {i \in DOMAIN visited : visited[i].op = "Concatenate"}
      i == CHOOSE j \in at : Cardinality({l \in at : l <= j}) = k
  IN  visited[i].shape[2]
\* the widths the layers of an attribute were built with
BuiltWidths(m, name) ==
  {LayersOf(m, name)[i].filters : i \in DOMAIN LayersOf(m, name)}
FirstWidthMatches ==
  /\ WidthAfterConcatenate(forward_pass.visited, 1)
       = (built.args.embed_dim \div 4) + (built.args.embed_dim \div 4)
  /\ BuiltWidths(built, "blocks_2") \cup BuiltWidths(built, "blocks_21")
       = {WidthAfterConcatenate(forward_pass.visited, 1)}
SecondWidthMatches ==
  /\ WidthAfterConcatenate(forward_pass.visited, 2)
       = (built.args.embed_dim \div 4) + (built.args.embed_dim \div 4)
           + (built.args.embed_dim \div 2)
  /\ WidthAfterConcatenate(forward_pass.visited, 2) = built.args.embed_dim
  /\ BuiltWidths(built, "blocks_3") \cup BuiltWidths(built, "add_cls_token")
       \cup BuiltWidths(built, "blocks_last") = {built.args.embed_dim}

\* C26: for every positive embed_dim, in a call of the ViT discriminator the
\* token width after the first concatenation is the width blocks_2 and
\* blocks_21 were built with, and the width after the second concatenation
\* is embed_dim, the width blocks_3, the classification token and
\* blocks_last were built with.
C26_Original == ViTCalled => FirstWidthMatches /\ SecondWidthMatches

\* ------------------------------------------------------- residual stages
SEResNetModels == {"SEResNet_generator", "SEResNet_discriminator"}
\* the kind of block the resnet string asks for; "" for none
ChosenKind(resnet) ==
  IF Contains(<<"s", "e">>, Lower(resnet.chars)) THEN "SEResNet_Block"
  ELSE IF Contains(<<"r", "e", "s">>, Lower(resnet.chars)) THEN "ResNet_Block"
  ELSE ""
ResidualStageNames ==
  <<"res_block1", "res_block2", "res_block3", "res_block4">>
ConvStageNames ==
  <<"conv_block1", "conv_block2", "conv_block3", "conv_block4">>
\* residual stage i of the built model has num_blocks[i] blocks, all of the
\* chosen kind, and none when no kind is chosen
ResidualStagesAsAsked ==
  \A i \in DOMAIN built.args.num_blocks :
    LET blocks == LayersOf(built, ResidualStageNames[i])
        kind == ChosenKind(built.args.resnet)
    IN  /\ Len(blocks) = IF kind = "" THEN 0 ELSE built.args.num_blocks[i]
        /\ \A k \in DOMAIN blocks : blocks[k].layer = kind
\* the position of a stage in what a call ran
PositionOf(visited, name) ==
  CHOOSE i \in DOMAIN visited : visited[i].op = name
SEResNetCalled ==
  /\ built.class \in SEResNetModels /\ built.outcome = "built"
  /\ forward_pass # NoForward

\* C27: in SEResNet_generator and SEResNet_discriminator residual stage i
\* has num_blocks[i] blocks of the one kind the resnet string chooses ('se'
\* before 'res', none otherwise), and a forward pass runs conv stage 1,
\* residual stage 1, conv stage 2, residual stage 2, ...: residual stage i
\* right after conv stage i.
C27_Original ==
  /\ built.class \in SEResNetModels /\ built.outcome = "built" =>
       ResidualStagesAsAsked
  /\ SEResNetCalled /\ forward_pass.outcome = "returned" =>
       \A i \in DOMAIN built.args.num_blocks :
         PositionOf(forward_pass.visited, ResidualStageNames[i])
           = PositionOf(forward_pass.visited, ConvStageNames[i]) + 1

\* the order of the stages in a forward pass, by class
StageOrder(class) ==
  IF class = "SEResNet_generator"
    THEN <<"initial_block", "res_block1", "conv_block1", "res_block2",
           "conv_block2", "res_block3", "conv_block3", "conv_block4">>
    ELSE <<"conv_block1", "res_block1", "conv_block2", "res_block2",
           "conv_block3", "res_block3", "conv_block4", "res_block4",
           "header_block">>

\* C27: in SEResNet_generator and SEResNet_discriminator residual stage i
\* has num_blocks[i] blocks of the one kind the resnet string chooses ('se'
\* before 'res', none otherwise).  A forward pass runs the stages in one
\* fixed order, up to the stage that raises if one does: in the
\* discriminator conv stage i and then residual stage i, for i = 1..4, then
\* the header; in the generator the initial block, then residual stage i
\* and after it conv stage i, for i = 1..3, then conv stage 4.
C27_Theorem ==
  /\ built.class \in SEResNetModels /\ built.outcome = "built" =>
       ResidualStagesAsAsked
  /\ SEResNetCalled =>
       /\ IsPrefix(OpsOf(forward_pass.visited), StageOrder(built.class))
       /\ forward_pass.outcome = "returned" =>
            OpsOf(forward_pass.visited) = StageOrder(built.class)

\* a generator built with resnet 'SEResNet' and num_blocks [1, 0, 2] has run
\* a forward pass through its SE-ResNet blocks
C27_Witness ==
  /\ SEResNetCalled /\ forward_pass.outcome = "returned"
  /\ built.class = "SEResNet_generator"
  /\ built.args.resnet = Str(<<"S", "E", "R", "e", "s", "N", "e", "t">>)
  /\ built.args.num_blocks = <<1, 0, 2>>
  /\ Kinds(LayersOf(built, "res_block3"))
       = <<"SEResNet_Block", "SEResNet_Block">>

\* ------------------------------------------------ unknown norm_type values
NormBuilders == {"downsample", "upsample", "discriminator"}
\* what the three builders that take norm_type leave for one norm_type
WithNormType(norm_type) ==
  <<downsample(DownArgs(64, norm_type, TRUE)),
    upsample([filters |-> 64, size |-> 4, norm_type |-> norm_type,
              apply_dropout |-> FALSE]),
    PatchGan_discriminator([norm_type |-> norm_type, target |-> TRUE])>>
Rejected(m) == m.outcome # "built"
BuiltWithoutNorm(m) ==
  /\ m.outcome = "built"
  /\ \A i \in DOMAIN m.stages :
       Positions(m.stages[i].layers, NormKinds) = {}

\* C28: a norm_type that is neither 'batchnorm' nor 'instancenorm' is
\* handled alike by downsample, upsample and the PatchGAN discriminator:
\* whichever of them was called with it, all three reject it or all three
\* build without a normalization layer.
C28_Original ==
  built.class \in NormBuilders /\ NamedNorm(built.args.norm_type) = "" =>
       LET all == WithNormType(built.args.norm_type)
       IN  /\ built.class = "downsample" /\ built.args.apply_norm =>
                built = all[1]
           /\ \/ \A i \in 1..3 : Rejected(all[i])
              \/ \A i \in 1..3 : BuiltWithoutNorm(all[i])

====
